---- MODULE Spec2Model ----
(********************************************************************************)
(* Verification model of the Redis-backed rate limiters of go-help              *)
(* (package redis_help): the fixed-window RateLimiter and RateLimiterV2,        *)
(* the TokenBucketRateLimiter, the LeakyBucketRateLimiter and their             *)
(* constructors, of store calls that fail (go-redis re-sends them up to         *)
(* MaxRetries times), of ActivationV1.GenerateActivationCode (package          *)
(* activations), of the in-process TokenBucket (package token_bucket, a         *)
(* buffered channel filled by the TickerPush goroutine) and of the job          *)
(* registry of package async_job (Push and Run, keyed by context or by          *)
(* string).                                                                     *)
(*                                                                              *)
(* Each limiter is modelled with its own clock, its own slice of the Redis      *)
(* keyspace and its own callers, and has its own specification; the other       *)
(* limiters stay as constructed.  Specifications over two limiters construct    *)
(* one of them and leave the other unconstructed, so that its methods cannot    *)
(* be called.  Under the concurrent specifications an IsAllowed call is two     *)
(* steps, as in the Go code: the caller first reads time.Now() (and derives     *)
(* the key from it), then the store executes the Lua script atomically.         *)
(* Redis TTLs are kept as absolute expiry times; a key whose expiry time        *)
(* has been reached is removed when the clock advances.                         *)
(*                                                                              *)
(* Fixed-window times are in milliseconds, token/leaky bucket times in          *)
(* seconds (time.Now().Unix()).  RateLimiter takes time.Now() in a zone with    *)
(* a UTC offset of 0; RateLimiterV2 takes it in the zone of its config.         *)
(********************************************************************************)
EXTENDS Integers, Sequences, FiniteSets, TLC

VARIABLES
    fwCfg,      \* RateLimiter{maxCount, timeUnit}, timeUnit in ms
    fwNow,      \* wall clock of the fixed-window world, Unix ms
    fwStore,    \* Redis string keys of the limiter: key -> [val, exp]
    fwPend,     \* per caller: the call in flight (key already generated)
    fwLast,     \* the last call that returned, with what it read and returned
    fwTrace,    \* IsAllowed calls evaluated on one key since it was absent
    tbCfg,      \* TokenBucketConfig{MaxTokens, RefillInterval (ms), TokensPerRefill}
    tbNow,      \* wall clock of the token-bucket world, Unix seconds
    tbStore,    \* per user: the "<key>:tokens:<id>" and "<key>:time:<id>" strings
    tbLast,     \* the last call that returned
    tbPend,     \* per concurrent caller: the IsAllowed call in flight
    tbTrace,    \* IsAllowed calls evaluated in one second on an identity found fresh
    tbAdm,      \* when followed: IsAllowed calls allowed to the identity called first
    lbCfg,      \* LeakyBucketConfig{Rate, Capacity}
    lbNow,      \* clock of the Redis server of the leaky-bucket world, Unix seconds
    lbStore,    \* per user: the hash "<key>:<id>" with fields tokens, last_time
    lbLast,     \* the last call that returned
    lbPend,     \* per concurrent caller: the IsAllowed call in flight
    lbTrace,    \* IsAllowed calls evaluated in one second on an identity found fresh
    v2Cfg,      \* RateLimiterV2{maxCount, timeUnit (ms), timezone (UTC offset, ms)}
    v2Now,      \* wall clock of the RateLimiterV2 world, Unix ms
    v2Store,    \* Redis string keys of the limiter: key -> [val, exp]
    v2Last,     \* the last call that returned
    v2Trace,    \* IsAllowed calls evaluated on one key since it was absent
    ctor,       \* the last constructor call: its arguments and what it returned
    act,        \* the last ActivationV1 call: its argument and what it returned
    tk,         \* the in-process TokenBucket, its TickerPush goroutine and its caller
    aj          \* async_job: the registry, its job lists and the callers of Push and Run

fwVars == <<fwCfg, fwNow, fwStore, fwPend, fwLast, fwTrace>>

tbVars == <<tbCfg, tbNow, tbStore, tbLast, tbPend, tbTrace, tbAdm>>

lbVars == <<lbCfg, lbNow, lbStore, lbLast, lbPend, lbTrace>>

v2Vars == <<v2Cfg, v2Now, v2Store, v2Last, v2Trace>>

vars == <<fwCfg, fwNow, fwStore, fwPend, fwLast, fwTrace,
          tbCfg, tbNow, tbStore, tbLast, tbPend, tbTrace, tbAdm,
          lbCfg, lbNow, lbStore, lbLast, lbPend, lbTrace,
          v2Cfg, v2Now, v2Store, v2Last, v2Trace, ctor, act, tk, aj>>

----------------------------------------------------------------------------
(* Helpers *)

Min(a, b) == IF a <= b THEN a ELSE b
Max(a, b) == IF a >= b THEN a ELSE b

\* A key without TTL (Redis TTL -1).
NoExp == -1

\* Redis key visibility: a key with a TTL is gone once its expiry time is reached.
Live(e, t) == e.exp = NoExp \/ t < e.exp

\* Concurrent callers of one bucket limiter.
BKNumProcs == 3

BKProcs == 1..BKNumProcs

----------------------------------------------------------------------------
(* Fixed-window RateLimiter: rate_limiter.go *)

\* Bounds of the fixed-window world.
FWNumProcs == 2
FWMaxTicks == 4
FWOver == 1

FWProcs == 1..FWNumProcs

\* Arguments tried for IncreaseCount and SetCount, and the largest stored
\* value the model follows.
FWMaxVal(cfg) == cfg.maxCount + FWOver

FWArgs(cfg) == {-1, 0, 1, FWMaxVal(cfg)}

\* time.Second, time.Minute, time.Hour in ms.
MsPerSecond == 1000
MsPerMinute == 60000
MsPerHour == 3600000
MsPerDay == 86400000

\* First instant of the model (two seconds before a minute rolls over); the
\* clock advances by half a window.
FWStart == 58000

FWStep(cfg) == cfg.timeUnit \div 2

\* NewRateLimiter's checks without the lower bound on the request density.
NewRateLimiterOK_NoMinDensity(cfg) ==
    /\ cfg.maxCount > 0
    /\ cfg.timeUnit > 0
    /\ cfg.timeUnit >= MsPerSecond
    /\ cfg.timeUnit <= 24 * MsPerHour
    /\ cfg.maxCount <= (10000 \div MsPerSecond) * cfg.timeUnit

\* NewRateLimiter's checks (client non-nil, key non-empty are implied).
NewRateLimiterOK(cfg) ==
    /\ cfg.maxCount > 0
    /\ cfg.timeUnit > 0
    /\ cfg.timeUnit >= MsPerSecond
    /\ cfg.timeUnit <= 24 * MsPerHour
    \* requestsPerSecond = maxCount / timeUnit.Seconds() in [0.1, 10000]
    /\ cfg.maxCount * MsPerSecond * 10 >= cfg.timeUnit
    /\ cfg.maxCount <= (10000 \div MsPerSecond) * cfg.timeUnit

FWConfigs ==
    {c \in {[maxCount |-> 2, timeUnit |-> 1000],
            [maxCount |-> 3, timeUnit |-> 2000]} : NewRateLimiterOK(c)}

\* now.Format(layout) for the four calendar layouts: the civil fields of the
\* instant, truncated at the layout's granularity.  The date part is the day
\* number since the epoch (one value per "20060102" string).
FormatTime(ms, layout) ==
    LET s    == ms \div MsPerSecond
        day  == s \div 86400
        hour == (s % 86400) \div 3600
        min  == (s % 3600) \div 60
        sec  == s % 60
    IN  CASE layout = "20060102"       -> <<day>>
          [] layout = "2006010215"     -> <<day, hour>>
          [] layout = "200601021504"   -> <<day, hour, min>>
          [] layout = "20060102150405" -> <<day, hour, min, sec>>

\* generateTimeKey formatting a one-second window with the minute layout.
generateTimeKey_MinuteForSecond(cfg, ms) ==
    LET unit == cfg.timeUnit
        layoutOf == CASE unit = MsPerDay    -> "20060102"
                      [] unit = MsPerHour   -> "2006010215"
                      [] unit = MsPerMinute -> "200601021504"
                      [] unit = MsPerSecond -> "200601021504"
                      [] OTHER              -> "%d"
    IN  IF layoutOf # "%d"
        THEN [layout |-> layoutOf, token |-> FormatTime(ms, layoutOf)]
        ELSE IF unit < MsPerSecond
             THEN [layout |-> "%d", token |-> <<ms \div (unit \div 1)>>]
             ELSE [layout |-> "%d",
                   token |-> <<(ms \div MsPerSecond) \div (unit \div MsPerSecond)>>]

\* RateLimiter.generateTimeKey: "<key>:<timeKey>".
generateTimeKey(cfg, ms) ==
    LET unit == cfg.timeUnit
        layoutOf == CASE unit = MsPerDay    -> "20060102"
                      [] unit = MsPerHour   -> "2006010215"
                      [] unit = MsPerMinute -> "200601021504"
                      [] unit = MsPerSecond -> "20060102150405"
                      [] OTHER              -> "%d"
    IN  IF layoutOf # "%d"
        THEN [layout |-> layoutOf, token |-> FormatTime(ms, layoutOf)]
        ELSE IF unit < MsPerSecond
             THEN [layout |-> "%d", token |-> <<ms \div (unit \div 1)>>]
             ELSE [layout |-> "%d",
                   token |-> <<(ms \div MsPerSecond) \div (unit \div MsPerSecond)>>]

\* calculateExpireTime returning the buffer alone (time.Second).
expireSeconds_BufferOnly(cfg) ==
    MsPerSecond \div MsPerSecond

\* RateLimiter.calculateExpireTime and the int(expireTime.Seconds()) of its
\* users, in ms.
expireSeconds(cfg) ==
    LET secs == (cfg.timeUnit + MsPerSecond) \div MsPerSecond
    IN  IF secs <= 0 THEN 1 ELSE secs

\* Redis GET: the value, or Nil (-1 in fwLast.pre) when absent or expired.
FWHas(store, key, t) == key \in DOMAIN store /\ Live(store[key], t)

FWPut(store, key, e) == [k \in DOMAIN store \cup {key} |-> IF k = key THEN e ELSE store[k]]

FWDel(store, key) == [k \in DOMAIN store \ {key} |-> store[k]]

\* Active expiry: the keys still alive at time t.
FWPurge(store, t) == [k \in {j \in DOMAIN store : Live(store[j], t)} |-> store[k]]

\* The IsAllowed script returning the count it read instead of the one it stored.
IsAllowedScript_ReturnsRead(cfg, store, key, t) ==
    LET current_count == IF FWHas(store, key, t) THEN store[key].val ELSE cfg.maxCount
    IN  IF current_count <= 0
        THEN [store |-> store, allowed |-> FALSE, count |-> current_count]
        ELSE [store   |-> FWPut(store, key, [val |-> current_count - 1,
                                             exp |-> t + expireSeconds(cfg) * MsPerSecond]),
              allowed |-> TRUE,
              count   |-> current_count]

\* The IsAllowed script denying only below 0 (current_count < 0).
IsAllowedScript_OffByOne(cfg, store, key, t) ==
    LET current_count == IF FWHas(store, key, t) THEN store[key].val ELSE cfg.maxCount
    IN  IF current_count < 0
        THEN [store |-> store, allowed |-> FALSE, count |-> current_count]
        ELSE [store   |-> FWPut(store, key, [val |-> current_count - 1,
                                             exp |-> t + expireSeconds(cfg) * MsPerSecond]),
              allowed |-> TRUE,
              count   |-> current_count - 1]

\* The Lua script of RateLimiter.IsAllowed, run atomically at server time t.
IsAllowedScript(cfg, store, key, t) ==
    LET current_count == IF FWHas(store, key, t) THEN store[key].val ELSE cfg.maxCount
    IN  IF current_count <= 0
        THEN [store |-> store, allowed |-> FALSE, count |-> current_count]
        ELSE [store   |-> FWPut(store, key, [val |-> current_count - 1,
                                             exp |-> t + expireSeconds(cfg) * MsPerSecond]),
              allowed |-> TRUE,
              count   |-> current_count - 1]

\* Value stored under key, -1 when there is none.
FWVal(store, key, t) == IF FWHas(store, key, t) THEN store[key].val ELSE -1

FWNoKey == [layout |-> "", token |-> <<>>]

FWIdle == [op |-> "idle", key |-> FWNoKey, at |-> 0]

\* The last call that returned: its key and time.Now(), its results, the
\* value left under its key (-1: none), whether the store is as it was, and
\* whether the call that returned before it was a denied IsAllowed (pd),
\* with that call's time.Now() and key.
FWNoLast == [op |-> "none", key |-> FWNoKey, at |-> 0, err |-> FALSE,
             allowed |-> FALSE, val |-> 0, post |-> -1, same |-> TRUE,
             pd |-> FALSE, pat |-> 0, pkey |-> FWNoKey]

FWReturn(last, store, t, op, key, at, err, allowed, val, store2) ==
    [op |-> op, key |-> key, at |-> at, err |-> err, allowed |-> allowed, val |-> val,
     post |-> FWVal(store2, key, t), same |-> (store2 = store),
     pd   |-> (last.op = "IsAllowed" /\ ~last.err /\ ~last.allowed),
     pat  |-> IF last.op = "IsAllowed" /\ ~last.err /\ ~last.allowed THEN last.at ELSE 0,
     pkey |-> IF last.op = "IsAllowed" /\ ~last.err /\ ~last.allowed
              THEN last.key ELSE FWNoKey]

FWNoTrace == [key |-> FWNoKey, n |-> 0, a |-> 0, lost |-> FALSE]

\* History of the IsAllowed calls evaluated on one key since the key was
\* found absent: n calls, a of them allowed; n = 0 when nothing is followed.
\* lost: the key was found absent although calls on it were being followed,
\* that is, its counter expired between two IsAllowed calls on it.
FWTraceNext(trace, store, key, t, allowed, cap) ==
    IF ~FWHas(store, key, t)
    THEN [key |-> key, n |-> 1, a |-> IF allowed THEN 1 ELSE 0,
          lost |-> (trace.key = key /\ trace.n > 0)]
    ELSE IF trace.key = key /\ trace.n > 0
    THEN [key |-> key, n |-> Min(cap, trace.n + 1),
          a |-> Min(cap, trace.a + IF allowed THEN 1 ELSE 0),
          lost |-> trace.lost]
    ELSE FWNoTrace

\* Every method needs the limiter NewRateLimiter returned; it touches the
\* keys of this limiter only.
FWFrame ==
    /\ NewRateLimiterOK(fwCfg)
    /\ UNCHANGED <<tbVars, lbVars, v2Vars, ctor, act, tk, aj>>

FWInit ==
    /\ fwCfg \in FWConfigs
    /\ fwNow = FWStart
    /\ fwStore = <<>>
    /\ fwPend = [p \in FWProcs |-> FWIdle]
    /\ fwLast = FWNoLast
    /\ fwTrace = FWNoTrace

\* The clock advances; expired keys disappear.
FWTick ==
    /\ FWFrame
    /\ /\ fwNow + FWStep(fwCfg) <= FWStart + FWMaxTicks * FWStep(fwCfg)
       /\ fwNow' = fwNow + FWStep(fwCfg)
       /\ fwStore' = FWPurge(fwStore, fwNow')
       /\ UNCHANGED <<fwCfg, fwPend, fwLast, fwTrace>>

\* A caller enters IsAllowed: generateTimeKey() and the expiry are computed
\* from time.Now(); the script has not run yet.
FWCallIsAllowed(p) ==
    /\ FWFrame
    /\ /\ fwPend[p].op = "idle"
       /\ fwPend' = [fwPend EXCEPT ![p] = [op |-> "IsAllowed",
                                           key |-> generateTimeKey(fwCfg, fwNow), at |-> fwNow]]
       /\ UNCHANGED <<fwCfg, fwNow, fwStore, fwLast, fwTrace>>

\* client.Eval of the IsAllowed script, and the parsing of its result.
FWEvalIsAllowed(p) ==
    /\ FWFrame
    /\ LET key == fwPend[p].key
           r   == IsAllowedScript(fwCfg, fwStore, key, fwNow)
           cap == fwCfg.maxCount + 2
       IN  /\ fwPend[p].op = "IsAllowed"
           /\ fwStore' = r.store
           /\ fwPend' = [fwPend EXCEPT ![p] = FWIdle]
           /\ fwLast' = FWReturn(fwLast, fwStore, fwNow, "IsAllowed", key, fwPend[p].at, FALSE, r.allowed,
                              r.count, fwStore')
           /\ fwTrace' = FWTraceNext(fwTrace, fwStore, key, fwNow, r.allowed, cap)
           /\ UNCHANGED <<fwCfg, fwNow>>

\* IsAllowed called and returning within one clock step (a single caller).
FWIsAllowed ==
    /\ FWFrame
    /\ LET key == generateTimeKey(fwCfg, fwNow)
           r   == IsAllowedScript(fwCfg, fwStore, key, fwNow)
           cap == fwCfg.maxCount + 2
       IN  /\ \A p \in FWProcs : fwPend[p].op = "idle"
           /\ fwStore' = r.store
           /\ fwLast' = FWReturn(fwLast, fwStore, fwNow, "IsAllowed", key, fwNow, FALSE, r.allowed,
                              r.count, fwStore')
           /\ fwTrace' = FWTraceNext(fwTrace, fwStore, key, fwNow, r.allowed, cap)
           /\ UNCHANGED <<fwCfg, fwNow, fwPend>>

\* client.Get(...).Int64() of GetCurrentCount: maxCount on redis.Nil.
GetCurrentCount(cfg, store, key, t) ==
    IF FWHas(store, key, t) THEN store[key].val ELSE cfg.maxCount

\* GetCurrentCount: the stored value of the current window.
FWGetCurrentCount ==
    /\ FWFrame
    /\ LET key == generateTimeKey(fwCfg, fwNow)
       IN  /\ fwLast' = FWReturn(fwLast, fwStore, fwNow, "GetCurrentCount", key, fwNow, FALSE, FALSE,
                              GetCurrentCount(fwCfg, fwStore, key, fwNow), fwStore)
           /\ UNCHANGED <<fwCfg, fwNow, fwStore, fwPend, fwTrace>>

\* ResetRateLimit: client.Del.
FWResetRateLimit ==
    /\ FWFrame
    /\ LET key == generateTimeKey(fwCfg, fwNow)
       IN  /\ fwStore' = FWDel(fwStore, key)
           /\ fwLast' = FWReturn(fwLast, fwStore, fwNow, "ResetRateLimit", key, fwNow, FALSE, FALSE,
                              0, fwStore')
           /\ fwTrace' = IF fwTrace.key = key THEN FWNoTrace ELSE fwTrace
           /\ UNCHANGED <<fwCfg, fwNow, fwPend>>

\* Redis INCRBY: an absent key starts at 0 and gets no TTL; a present key
\* keeps the TTL it has.
IncrBy(store, key, increment, t) ==
    IF FWHas(store, key, t)
    THEN FWPut(store, key, [val |-> store[key].val + increment, exp |-> store[key].exp])
    ELSE FWPut(store, key, [val |-> 0 + increment, exp |-> NoExp])

\* IncreaseCount(increment): error for increment <= 0, else client.IncrBy.
FWIncreaseCount(increment) ==
    /\ FWFrame
    /\ LET key == generateTimeKey(fwCfg, fwNow)
       IN  IF increment <= 0
           THEN /\ fwLast' = FWReturn(fwLast, fwStore, fwNow, "IncreaseCount", FWNoKey, fwNow, TRUE, FALSE,
                              increment, fwStore)
                /\ UNCHANGED <<fwCfg, fwNow, fwStore, fwPend, fwTrace>>
           ELSE /\ FWVal(fwStore, key, fwNow) + increment <= FWMaxVal(fwCfg)
                /\ fwStore' = IncrBy(fwStore, key, increment, fwNow)
                /\ fwLast' = FWReturn(fwLast, fwStore, fwNow, "IncreaseCount", key, fwNow, FALSE, FALSE,
                              increment, fwStore')
                /\ fwTrace' = IF fwTrace.key = key THEN FWNoTrace ELSE fwTrace
                /\ UNCHANGED <<fwCfg, fwNow, fwPend>>

\* SetCount(count): error for count < 0, else client.SetEx with the window's expiry.
FWSetCount(count) ==
    /\ FWFrame
    /\ LET key == generateTimeKey(fwCfg, fwNow)
           e   == [val |-> count, exp |-> fwNow + expireSeconds(fwCfg) * MsPerSecond]
       IN  IF count < 0
           THEN /\ fwLast' = FWReturn(fwLast, fwStore, fwNow, "SetCount", FWNoKey, fwNow, TRUE, FALSE,
                              count, fwStore)
                /\ UNCHANGED <<fwCfg, fwNow, fwStore, fwPend, fwTrace>>
           ELSE /\ fwStore' = FWPut(fwStore, key, e)
                /\ fwLast' = FWReturn(fwLast, fwStore, fwNow, "SetCount", key, fwNow, FALSE, FALSE,
                              count, fwStore')
                /\ fwTrace' = IF fwTrace.key = key THEN FWNoTrace ELSE fwTrace
                /\ UNCHANGED <<fwCfg, fwNow, fwPend>>

\* One caller, every call returning before the clock moves.
FWNext ==
    \/ FWTick
    \/ FWIsAllowed
    \/ FWGetCurrentCount
    \/ FWResetRateLimit
    \/ \E increment \in FWArgs(fwCfg) : FWIncreaseCount(increment)
    \/ \E count \in FWArgs(fwCfg) : FWSetCount(count)

\* Several callers of IsAllowed; the clock may move between a caller's
\* time.Now() and the evaluation of its script.
FWConcNext ==
    \/ FWTick
    \/ \E p \in FWProcs : FWCallIsAllowed(p)
    \/ \E p \in FWProcs : FWEvalIsAllowed(p)

----------------------------------------------------------------------------
(* RateLimiterV2 *)

\* Bounds of the RateLimiterV2 world.
V2MaxTicks == 3
V2Over == 1

\* Arguments tried for IncreaseCount and SetCount, and the largest stored
\* value the model follows.
V2MaxVal(cfg) == cfg.maxCount + V2Over

V2Args(cfg) == {-1, 0, 1, 2, V2MaxVal(cfg)}

\* First instant of the model (15:30 UTC of the first day); the clock
\* advances by half a window.
V2Start == 55800000

V2Step(cfg) == cfg.timeUnit \div 2

\* NewRateLimiterV2's checks (client non-nil, key non-empty are implied).
NewRateLimiterV2OK(cfg) ==
    /\ cfg.maxCount > 0
    /\ cfg.timeUnit > 0
    /\ cfg.timeUnit >= MsPerSecond
    /\ cfg.timeUnit <= 24 * MsPerHour

V2Configs ==
    {c \in {[maxCount |-> 5, timeUnit |-> MsPerHour, timezone |-> 0],
            [maxCount |-> 2, timeUnit |-> MsPerDay, timezone |-> 8 * MsPerHour]} :
        NewRateLimiterV2OK(c)}

\* RateLimiterV2.generateTimeKey: time.Now().In(rl.timezone) formatted with
\* the layout of the time unit, the Unix time divided by the unit otherwise.
generateTimeKeyV2(cfg, ms) ==
    LET unit == cfg.timeUnit
        now  == ms + cfg.timezone
        layoutOf == CASE unit = MsPerDay    -> "20060102"
                      [] unit = MsPerHour   -> "2006010215"
                      [] unit = MsPerMinute -> "200601021504"
                      [] unit = MsPerSecond -> "20060102150405"
                      [] OTHER              -> "%d"
    IN  IF layoutOf # "%d"
        THEN [layout |-> layoutOf, token |-> FormatTime(now, layoutOf)]
        ELSE IF unit < MsPerSecond
             THEN [layout |-> "%d", token |-> <<ms \div (unit \div 1)>>]
             ELSE [layout |-> "%d",
                   token |-> <<(ms \div MsPerSecond) \div (unit \div MsPerSecond)>>]

\* RateLimiterV2.calculateExpireTime and int(expireTime.Seconds()).
expireSecondsV2(cfg) == (cfg.timeUnit * 2) \div MsPerSecond

\* The expireSeconds of IncreaseCount and SetCount: at least 1.
expireSecondsV2Min1(cfg) == IF expireSecondsV2(cfg) <= 0 THEN 1 ELSE expireSecondsV2(cfg)

\* Redis EXPIRE on an existing key.
Expire(store, key, exp) == [store EXCEPT ![key] = [val |-> store[key].val, exp |-> exp]]

\* The IsAllowed script denying without taking its increment back (no DECRBY).
IsAllowedScriptV2_NoRestore(cfg, store, key, t) ==
    LET s1        == IncrBy(store, key, 1, t)
        new_count == s1[key].val
        s2        == IF new_count = 1
                     THEN Expire(s1, key, t + expireSecondsV2(cfg) * MsPerSecond)
                     ELSE s1
    IN  IF new_count > cfg.maxCount
        THEN [store |-> s2, allowed |-> FALSE,
              count |-> cfg.maxCount - (new_count - 1)]
        ELSE [store |-> s2, allowed |-> TRUE, count |-> cfg.maxCount - new_count]

\* The Lua script of RateLimiterV2.IsAllowed, run atomically at server time t.
IsAllowedScriptV2(cfg, store, key, t) ==
    LET s1        == IncrBy(store, key, 1, t)
        new_count == s1[key].val
        s2        == IF new_count = 1
                     THEN Expire(s1, key, t + expireSecondsV2(cfg) * MsPerSecond)
                     ELSE s1
    IN  IF new_count > cfg.maxCount
        THEN [store |-> IncrBy(s2, key, -1, t), allowed |-> FALSE,
              count |-> cfg.maxCount - (new_count - 1)]
        ELSE [store |-> s2, allowed |-> TRUE, count |-> cfg.maxCount - new_count]

\* The Lua script of RateLimiterV2.IncreaseCount: INCRBY, then EXPIRE.
IncreaseCountScriptV2(cfg, store, key, increment, t) ==
    Expire(IncrBy(store, key, increment, t), key,
           t + expireSecondsV2Min1(cfg) * MsPerSecond)

\* client.Get(...).Int64() of GetCurrentCount: 0 on redis.Nil.
GetCurrentCountV2(cfg, store, t) ==
    LET key == generateTimeKeyV2(cfg, t)
    IN  IF FWHas(store, key, t) THEN store[key].val ELSE 0

\* The last call that returned: its argument, its error and its results.
V2NoLast == [op |-> "none", at |-> 0, arg |-> 0, err |-> FALSE, allowed |-> FALSE, val |-> 0]

V2Return(op, at, arg, err, allowed, val) ==
    [op |-> op, at |-> at, arg |-> arg, err |-> err, allowed |-> allowed, val |-> val]

\* An administrative call on a key ends the history followed on it.
V2TraceAdmin(trace, key) == IF trace.key = key THEN FWNoTrace ELSE trace

\* Every method needs the limiter NewRateLimiterV2 returned; it touches the
\* keys of this limiter only.
V2Frame ==
    /\ NewRateLimiterV2OK(v2Cfg)
    /\ UNCHANGED <<fwVars, tbVars, lbVars, ctor, act, tk, aj>>

V2Init ==
    /\ v2Cfg \in V2Configs
    /\ v2Now = V2Start
    /\ v2Store = <<>>
    /\ v2Last = V2NoLast
    /\ v2Trace = FWNoTrace

\* The clock advances; expired keys disappear.
V2Tick ==
    /\ V2Frame
    /\ v2Now + V2Step(v2Cfg) <= V2Start + V2MaxTicks * V2Step(v2Cfg)
    /\ v2Now' = v2Now + V2Step(v2Cfg)
    /\ v2Store' = FWPurge(v2Store, v2Now')
    /\ UNCHANGED <<v2Cfg, v2Last, v2Trace>>

\* IsAllowed: generateTimeKey, then client.Eval of the script.
V2IsAllowed ==
    /\ V2Frame
    /\ LET key == generateTimeKeyV2(v2Cfg, v2Now)
           r   == IsAllowedScriptV2(v2Cfg, v2Store, key, v2Now)
       IN  /\ v2Store' = r.store
           /\ v2Last' = V2Return("IsAllowed", v2Now, 0, FALSE, r.allowed, r.count)
           /\ v2Trace' = FWTraceNext(v2Trace, v2Store, key, v2Now, r.allowed,
                                     v2Cfg.maxCount + 2)
           /\ UNCHANGED <<v2Cfg, v2Now>>

\* GetCurrentCount: the used count of the current window.
V2GetCurrentCount ==
    /\ V2Frame
    /\ v2Last' = V2Return("GetCurrentCount", v2Now, 0, FALSE, FALSE,
                          GetCurrentCountV2(v2Cfg, v2Store, v2Now))
    /\ UNCHANGED <<v2Cfg, v2Now, v2Store, v2Trace>>

\* GetRemainingCount: maxCount - current, 0 when that is negative.
V2GetRemainingCount ==
    /\ V2Frame
    /\ v2Last' = V2Return("GetRemainingCount", v2Now, 0, FALSE, FALSE,
                          Max(0, v2Cfg.maxCount - GetCurrentCountV2(v2Cfg, v2Store, v2Now)))
    /\ UNCHANGED <<v2Cfg, v2Now, v2Store, v2Trace>>

\* IncreaseCount accepting a negative increment (refusing 0 only).
V2IncreaseCount_NegativeAllowed(increment) ==
    /\ V2Frame
    /\ IF increment = 0
       THEN /\ v2Last' = V2Return("IncreaseCount", v2Now, increment, TRUE, FALSE, 0)
            /\ UNCHANGED <<v2Cfg, v2Now, v2Store, v2Trace>>
       ELSE /\ GetCurrentCountV2(v2Cfg, v2Store, v2Now) + increment <= V2MaxVal(v2Cfg)
            /\ v2Store' = IncreaseCountScriptV2(v2Cfg, v2Store, generateTimeKeyV2(v2Cfg, v2Now),
                                                increment, v2Now)
            /\ v2Last' = V2Return("IncreaseCount", v2Now, increment, FALSE, FALSE, 0)
            /\ v2Trace' = V2TraceAdmin(v2Trace, generateTimeKeyV2(v2Cfg, v2Now))
            /\ UNCHANGED <<v2Cfg, v2Now>>

\* IncreaseCount(increment): error for increment <= 0, else the script.
V2IncreaseCount(increment) ==
    /\ V2Frame
    /\ IF increment <= 0
       THEN /\ v2Last' = V2Return("IncreaseCount", v2Now, increment, TRUE, FALSE, 0)
            /\ UNCHANGED <<v2Cfg, v2Now, v2Store, v2Trace>>
       ELSE /\ GetCurrentCountV2(v2Cfg, v2Store, v2Now) + increment <= V2MaxVal(v2Cfg)
            /\ v2Store' = IncreaseCountScriptV2(v2Cfg, v2Store, generateTimeKeyV2(v2Cfg, v2Now),
                                                increment, v2Now)
            /\ v2Last' = V2Return("IncreaseCount", v2Now, increment, FALSE, FALSE, 0)
            /\ v2Trace' = V2TraceAdmin(v2Trace, generateTimeKeyV2(v2Cfg, v2Now))
            /\ UNCHANGED <<v2Cfg, v2Now>>

\* SetCount(count): error for count < 0, else client.SetEx.
V2SetCount(count) ==
    /\ V2Frame
    /\ IF count < 0
       THEN /\ v2Last' = V2Return("SetCount", v2Now, count, TRUE, FALSE, 0)
            /\ UNCHANGED <<v2Cfg, v2Now, v2Store, v2Trace>>
       ELSE /\ v2Store' = FWPut(v2Store, generateTimeKeyV2(v2Cfg, v2Now),
                                [val |-> count,
                                 exp |-> v2Now + expireSecondsV2Min1(v2Cfg) * MsPerSecond])
            /\ v2Last' = V2Return("SetCount", v2Now, count, FALSE, FALSE, 0)
            /\ v2Trace' = V2TraceAdmin(v2Trace, generateTimeKeyV2(v2Cfg, v2Now))
            /\ UNCHANGED <<v2Cfg, v2Now>>

\* ResetRateLimit: client.Del.
V2ResetRateLimit ==
    /\ V2Frame
    /\ v2Store' = FWDel(v2Store, generateTimeKeyV2(v2Cfg, v2Now))
    /\ v2Last' = V2Return("ResetRateLimit", v2Now, 0, FALSE, FALSE, 0)
    /\ v2Trace' = V2TraceAdmin(v2Trace, generateTimeKeyV2(v2Cfg, v2Now))
    /\ UNCHANGED <<v2Cfg, v2Now>>

V2Next ==
    \/ V2Tick
    \/ V2IsAllowed
    \/ V2GetCurrentCount
    \/ V2GetRemainingCount
    \/ \E increment \in V2Args(v2Cfg) : V2IncreaseCount(increment)
    \/ \E count \in V2Args(v2Cfg) : V2SetCount(count)
    \/ V2ResetRateLimit

----------------------------------------------------------------------------
(* TokenBucketRateLimiter: token_bucket.go *)

\* Bounds of the token-bucket world.
TBMaxTicks == 6

TBUsers == {"u1"}

\* const tokenBucketExpireSeconds
tokenBucketExpireSeconds == 86400

\* The clock starts here.
TBStart == 1000

\* tokensPerRefill of the limiter: config.TokensPerRefill, MaxTokens when <= 0.
tokensPerRefill(cfg) ==
    IF cfg.TokensPerRefill <= 0 THEN cfg.MaxTokens ELSE cfg.TokensPerRefill

\* int(tbrl.refillInterval.Seconds()): the interval handed to the scripts.
refillSeconds(cfg) == cfg.RefillInterval \div MsPerSecond

\* NewTokenBucketRateLimiter's checks (client non-nil, key non-empty are implied).
NewTokenBucketRateLimiterOK(cfg) ==
    /\ cfg.MaxTokens > 0
    /\ cfg.RefillInterval > 0
    /\ (cfg.MaxTokens * (cfg.RefillInterval \div MsPerSecond)) \div tokensPerRefill(cfg) <= 86400

TBConfigs ==
    {c \in {[MaxTokens |-> 5, RefillInterval |-> 2000, TokensPerRefill |-> 2],
            [MaxTokens |-> 5, RefillInterval |-> 34560000, TokensPerRefill |-> 2],
            [MaxTokens |-> 3, RefillInterval |-> 57600000, TokensPerRefill |-> 2]} :
        NewTokenBucketRateLimiterOK(c)}

\* The clock advances by half a refill interval.
TBStep(cfg) == Max(1, refillSeconds(cfg) \div 2)

\* The two keys of one user; an absent key is hasX = FALSE with zeros.
TBAbsent == [hasTok |-> FALSE, tok |-> 0, tokExp |-> 0,
             hasTime |-> FALSE, time |-> 0, timeExp |-> 0]

\* Active expiry of the two keys at time t.
TBPurge(b, t) ==
    LET liveTok  == b.hasTok /\ t < b.tokExp
        liveTime == b.hasTime /\ t < b.timeExp
    IN  [hasTok  |-> liveTok,
         tok     |-> IF liveTok THEN b.tok ELSE 0,
         tokExp  |-> IF liveTok THEN b.tokExp ELSE 0,
         hasTime |-> liveTime,
         time    |-> IF liveTime THEN b.time ELSE 0,
         timeExp |-> IF liveTime THEN b.timeExp ELSE 0]

\* SETEX token_key / time_key at server time t.
TBSetTok(b, v, t) == [b EXCEPT !.hasTok = TRUE, !.tok = v, !.tokExp = t + tokenBucketExpireSeconds]

TBSetTime(b, v, t) == [b EXCEPT !.hasTime = TRUE, !.time = v, !.timeExp = t + tokenBucketExpireSeconds]

\* The refill moving lastRefill to the time of the call.
TBRefill_ToNow(cfg, b, current_time) ==
    LET max_tokens        == cfg.MaxTokens
        refill_interval   == refillSeconds(cfg)
        tokens_per_refill == tokensPerRefill(cfg)
        current_tokens    == IF b.hasTok THEN b.tok ELSE max_tokens
        last_refill_time  == IF b.hasTime THEN b.time ELSE current_time
        time_passed       == current_time - last_refill_time
        refill_cycles     == time_passed \div refill_interval
        tokens_to_add     == refill_cycles * tokens_per_refill
    IN  IF tokens_to_add > 0
        THEN [tokens |-> Min(max_tokens, current_tokens + tokens_to_add),
              last   |-> current_time,
              added  |-> TRUE]
        ELSE [tokens |-> current_tokens, last |-> last_refill_time, added |-> FALSE]

\* The refill part shared by the IsAllowed and GetCurrentTokens scripts:
\* the token count and refill time after crediting the elapsed cycles.
TBRefill(cfg, b, current_time) ==
    LET max_tokens        == cfg.MaxTokens
        refill_interval   == refillSeconds(cfg)
        tokens_per_refill == tokensPerRefill(cfg)
        current_tokens    == IF b.hasTok THEN b.tok ELSE max_tokens
        last_refill_time  == IF b.hasTime THEN b.time ELSE current_time
        time_passed       == current_time - last_refill_time
        refill_cycles     == time_passed \div refill_interval
        tokens_to_add     == refill_cycles * tokens_per_refill
    IN  IF tokens_to_add > 0
        THEN [tokens |-> Min(max_tokens, current_tokens + tokens_to_add),
              last   |-> current_time - (time_passed % refill_interval),
              added  |-> TRUE]
        ELSE [tokens |-> current_tokens, last |-> last_refill_time, added |-> FALSE]

\* The IsAllowed script writing nothing when it denies.
TBIsAllowedScript_DenyWritesNothing(cfg, b, current_time, t) ==
    LET r == TBRefill(cfg, b, current_time)
    IN  IF r.tokens > 0
        THEN [b       |-> TBSetTime(TBSetTok(b, r.tokens - 1, t), r.last, t),
              allowed |-> TRUE,
              tokens  |-> r.tokens - 1]
        ELSE [b       |-> b,
              allowed |-> FALSE,
              tokens  |-> r.tokens]

\* The Lua script of TokenBucketRateLimiter.IsAllowed at server time t.
TBIsAllowedScript(cfg, b, current_time, t) ==
    LET r == TBRefill(cfg, b, current_time)
    IN  IF r.tokens > 0
        THEN [b       |-> TBSetTime(TBSetTok(b, r.tokens - 1, t), r.last, t),
              allowed |-> TRUE,
              tokens  |-> r.tokens - 1]
        ELSE [b       |-> TBSetTime(b, r.last, t),
              allowed |-> FALSE,
              tokens  |-> r.tokens]

\* The Lua script of TokenBucketRateLimiter.GetCurrentTokens.
TBGetCurrentTokensScript(cfg, b, current_time, t) ==
    LET r == TBRefill(cfg, b, current_time)
    IN  IF r.added
        THEN [b |-> TBSetTime(TBSetTok(b, r.tokens, t), r.last, t), tokens |-> r.tokens]
        ELSE [b |-> b, tokens |-> r.tokens]

\* The AddTokens script without the cap at max_tokens.
TBAddTokensScript_NoCap(cfg, b, tokens_to_add, t) ==
    LET current_tokens == IF b.hasTok THEN b.tok ELSE cfg.MaxTokens
        new_tokens     == current_tokens + tokens_to_add
    IN  [b |-> TBSetTok(b, new_tokens, t), tokens |-> new_tokens]

\* The Lua script of TokenBucketRateLimiter.AddTokens.
TBAddTokensScript(cfg, b, tokens_to_add, t) ==
    LET current_tokens == IF b.hasTok THEN b.tok ELSE cfg.MaxTokens
        new_tokens     == Min(cfg.MaxTokens, current_tokens + tokens_to_add)
    IN  [b |-> TBSetTok(b, new_tokens, t), tokens |-> new_tokens]

\* The last call that returned, and whether the call before it was a denied
\* IsAllowed (pd) with its time.
TBNoLast == [op |-> "none", u |-> "", at |-> 0, err |-> FALSE, allowed |-> FALSE, val |-> 0,
             pd |-> FALSE, pat |-> 0]

TBReturn(last, op, u, at, err, allowed, val) ==
    [op |-> op, u |-> u, at |-> at, err |-> err, allowed |-> allowed, val |-> val,
     pd  |-> (last.op = "IsAllowed" /\ ~last.err /\ ~last.allowed /\ last.u = u),
     pat |-> IF last.op = "IsAllowed" /\ ~last.err /\ ~last.allowed /\ last.u = u
             THEN last.at ELSE 0]

\* Arguments tried for AddTokens and SetTokens.
TBArgs(cfg) == {-1, 0, 1, cfg.MaxTokens, cfg.MaxTokens + 1}

\* config.Key of the limiter.
TBKey == "tb"

\* generateKeys ignoring the userId.
generateKeys_NoUser(userId) ==
    <<TBKey \o ":tokens:", TBKey \o ":time:">>

\* generateKeys(userId): the token key and the time key.
generateKeys(userId) ==
    <<TBKey \o ":tokens:" \o userId, TBKey \o ":time:" \o userId>>

\* The record held under the keys generated for userId, named by the
\* identity it was first written for.
TBSlot(userId) == CHOOSE v \in DOMAIN tbStore : generateKeys(v) = generateKeys(userId)

\* Every method needs the limiter NewTokenBucketRateLimiter returned; it
\* touches the keys of this limiter only.
TBFrame ==
    /\ NewTokenBucketRateLimiterOK(tbCfg)
    /\ UNCHANGED <<fwVars, lbVars, v2Vars, ctor, act, tk, aj>>

\* No call in flight, nothing followed.
TBIdle == [op |-> "idle", u |-> "", at |-> 0]

TBNoTrace == [u |-> "", at |-> 0, n |-> 0, a |-> 0]

\* Admissions are not followed / are followed from the first call on.
TBNoAdm == [on |-> FALSE, u |-> "", t0 |-> 0, a |-> 0]

TBAdmArmed == [on |-> TRUE, u |-> "", t0 |-> 0, a |-> 0]

\* The admissions a bucket that was full at t0 can grant up to time t: its
\* maxTokens and tokensPerRefill for every refill interval elapsed.
TBAdmBound(cfg, t0, t) ==
    cfg.MaxTokens + ((t - t0) \div refillSeconds(cfg)) * tokensPerRefill(cfg)

\* History of the IsAllowed calls of the identity the limiter is called for
\* first, when admissions are followed: the time t0 of that call and the
\* number a of calls allowed since (followed up to one above the bound).  An
\* administrative or failed call for the identity ends it.
TBAdmNext(cfg, adm, u, at, allowed) ==
    IF adm = TBAdmArmed
    THEN [on |-> TRUE, u |-> u, t0 |-> at, a |-> IF allowed THEN 1 ELSE 0]
    ELSE IF adm.on /\ adm.u = u
    THEN [adm EXCEPT !.a = Min(TBAdmBound(cfg, adm.t0, Max(at, adm.t0)) + 1,
                               adm.a + IF allowed THEN 1 ELSE 0)]
    ELSE adm

TBAdmEnd(adm, u) == IF adm.on /\ adm.u = u THEN TBNoAdm ELSE adm

TBInit ==
    /\ tbCfg \in TBConfigs
    /\ tbNow = TBStart
    /\ tbStore = [u \in TBUsers |-> TBAbsent]
    /\ tbLast = TBNoLast
    /\ tbPend = [p \in BKProcs |-> TBIdle]
    /\ tbTrace = TBNoTrace
    /\ tbAdm = TBNoAdm

\* The clock advances; expired keys disappear.
TBTick ==
    /\ TBFrame
    /\ /\ tbNow + TBStep(tbCfg) <= TBStart + TBMaxTicks * TBStep(tbCfg)
       /\ tbNow' = tbNow + TBStep(tbCfg)
       /\ tbStore' = [u \in DOMAIN tbStore |-> TBPurge(tbStore[TBSlot(u)], tbNow')]
       /\ UNCHANGED <<tbCfg, tbLast, tbPend, tbTrace, tbAdm>>

\* IsAllowed(ctx, userId): error for an empty userId, else the script.
TBIsAllowed(u) ==
    /\ TBFrame
    /\ IF u = ""
       THEN /\ tbLast' = TBReturn(tbLast, "IsAllowed", u, tbNow, TRUE, FALSE, 0)
            /\ UNCHANGED <<tbCfg, tbNow, tbStore, tbPend, tbTrace, tbAdm>>
       ELSE LET r == TBIsAllowedScript(tbCfg, tbStore[TBSlot(u)], tbNow, tbNow)
            IN  /\ tbStore' = [tbStore EXCEPT ![TBSlot(u)] = r.b]
                /\ tbLast' = TBReturn(tbLast, "IsAllowed", u, tbNow, FALSE, r.allowed, r.tokens)
                /\ tbAdm' = TBAdmNext(tbCfg, tbAdm, u, tbNow, r.allowed)
                /\ UNCHANGED <<tbCfg, tbNow, tbPend, tbTrace>>

\* GetCurrentTokens(ctx, userId)
TBGetCurrentTokens(u) ==
    /\ TBFrame
    /\ IF u = ""
       THEN /\ tbLast' = TBReturn(tbLast, "GetCurrentTokens", u, tbNow, TRUE, FALSE, 0)
            /\ UNCHANGED <<tbCfg, tbNow, tbStore, tbPend, tbTrace, tbAdm>>
       ELSE LET r == TBGetCurrentTokensScript(tbCfg, tbStore[TBSlot(u)], tbNow, tbNow)
            IN  /\ tbStore' = [tbStore EXCEPT ![TBSlot(u)] = r.b]
                /\ tbLast' = TBReturn(tbLast, "GetCurrentTokens", u, tbNow, FALSE, FALSE, r.tokens)
                /\ UNCHANGED <<tbCfg, tbNow, tbPend, tbTrace, tbAdm>>

\* ResetTokens deleting the token key only.
TBResetTokens_TokenKeyOnly(u) ==
    /\ TBFrame
    /\ IF u = ""
       THEN /\ tbLast' = TBReturn(tbLast, "ResetTokens", u, tbNow, TRUE, FALSE, 0)
            /\ UNCHANGED <<tbCfg, tbNow, tbStore, tbPend, tbTrace, tbAdm>>
       ELSE /\ tbStore' = [tbStore EXCEPT ![TBSlot(u)] =
                               [@ EXCEPT !.hasTok = FALSE, !.tok = 0, !.tokExp = 0]]
            /\ tbLast' = TBReturn(tbLast, "ResetTokens", u, tbNow, FALSE, FALSE, 0)
            /\ tbAdm' = TBAdmEnd(tbAdm, u)
            /\ UNCHANGED <<tbCfg, tbNow, tbPend, tbTrace>>

\* ResetTokens(ctx, userId): client.Del of both keys.
TBResetTokens(u) ==
    /\ TBFrame
    /\ IF u = ""
       THEN /\ tbLast' = TBReturn(tbLast, "ResetTokens", u, tbNow, TRUE, FALSE, 0)
            /\ UNCHANGED <<tbCfg, tbNow, tbStore, tbPend, tbTrace, tbAdm>>
       ELSE /\ tbStore' = [tbStore EXCEPT ![TBSlot(u)] = TBAbsent]
            /\ tbLast' = TBReturn(tbLast, "ResetTokens", u, tbNow, FALSE, FALSE, 0)
            /\ tbAdm' = TBAdmEnd(tbAdm, u)
            /\ UNCHANGED <<tbCfg, tbNow, tbPend, tbTrace>>

\* AddTokens without the check of its tokens argument.
TBAddTokens_AnyTokens(u, tokens) ==
    /\ TBFrame
    /\ IF u = ""
       THEN /\ tbLast' = TBReturn(tbLast, "AddTokens", u, tbNow, TRUE, FALSE, tokens)
            /\ UNCHANGED <<tbCfg, tbNow, tbStore, tbPend, tbTrace, tbAdm>>
       ELSE /\ tbStore' = [tbStore EXCEPT ![TBSlot(u)] = TBAddTokensScript(tbCfg, tbStore[TBSlot(u)], tokens, tbNow).b]
            /\ tbLast' = TBReturn(tbLast, "AddTokens", u, tbNow, FALSE, FALSE, tokens)
            /\ tbAdm' = TBAdmEnd(tbAdm, u)
            /\ UNCHANGED <<tbCfg, tbNow, tbPend, tbTrace>>

\* AddTokens(ctx, userId, tokens): error for an empty userId or tokens <= 0,
\* else the script.
TBAddTokens(u, tokens) ==
    /\ TBFrame
    /\ IF u = "" \/ tokens <= 0
       THEN /\ tbLast' = TBReturn(tbLast, "AddTokens", u, tbNow, TRUE, FALSE, tokens)
            /\ UNCHANGED <<tbCfg, tbNow, tbStore, tbPend, tbTrace, tbAdm>>
       ELSE /\ tbStore' = [tbStore EXCEPT ![TBSlot(u)] = TBAddTokensScript(tbCfg, tbStore[TBSlot(u)], tokens, tbNow).b]
            /\ tbLast' = TBReturn(tbLast, "AddTokens", u, tbNow, FALSE, FALSE, tokens)
            /\ tbAdm' = TBAdmEnd(tbAdm, u)
            /\ UNCHANGED <<tbCfg, tbNow, tbPend, tbTrace>>

\* SetTokens(ctx, userId, tokens): error for an empty userId or tokens outside
\* 0..maxTokens, else client.SetEx of the token key.
TBSetTokens(u, tokens) ==
    /\ TBFrame
    /\ IF u = "" \/ tokens < 0 \/ tokens > tbCfg.MaxTokens
       THEN /\ tbLast' = TBReturn(tbLast, "SetTokens", u, tbNow, TRUE, FALSE, tokens)
            /\ UNCHANGED <<tbCfg, tbNow, tbStore, tbPend, tbTrace, tbAdm>>
       ELSE /\ tbStore' = [tbStore EXCEPT ![TBSlot(u)] = TBSetTok(tbStore[TBSlot(u)], tokens, tbNow)]
            /\ tbLast' = TBReturn(tbLast, "SetTokens", u, tbNow, FALSE, FALSE, tokens)
            /\ tbAdm' = TBAdmEnd(tbAdm, u)
            /\ UNCHANGED <<tbCfg, tbNow, tbPend, tbTrace>>

\* History of the IsAllowed calls that concurrent callers issued and the
\* store evaluated within one clock second on an identity found without
\* keys: n calls, a of them allowed; n = 0 when nothing is followed.
TBTraceNext(trace, b, u, at, now, allowed, cap) ==
    IF at # now
    THEN TBNoTrace
    ELSE IF b = TBAbsent
    THEN [u |-> u, at |-> at, n |-> 1, a |-> IF allowed THEN 1 ELSE 0]
    ELSE IF trace.n > 0 /\ trace.u = u /\ trace.at = at
    THEN [u |-> u, at |-> at, n |-> Min(cap, trace.n + 1),
          a |-> Min(cap, trace.a + IF allowed THEN 1 ELSE 0)]
    ELSE TBNoTrace

\* A caller enters IsAllowed: the keys are generated and time.Now().Unix()
\* is read; the script has not run yet.
TBCallIsAllowed(p, u) ==
    /\ TBFrame
    /\ /\ tbPend[p].op = "idle"
       /\ tbPend' = [tbPend EXCEPT ![p] = [op |-> "IsAllowed", u |-> u, at |-> tbNow]]
       /\ UNCHANGED <<tbCfg, tbNow, tbStore, tbLast, tbTrace, tbAdm>>

\* client.Eval of the IsAllowed script with the time the caller read, and the
\* parsing of its result.
TBEvalIsAllowed(p) ==
    /\ TBFrame
    /\ LET u == tbPend[p].u
           r == TBIsAllowedScript(tbCfg, tbStore[TBSlot(u)], tbPend[p].at, tbNow)
       IN  /\ tbPend[p].op = "IsAllowed"
           /\ tbStore' = [tbStore EXCEPT ![TBSlot(u)] = r.b]
           /\ tbPend' = [tbPend EXCEPT ![p] = TBIdle]
           /\ tbLast' = TBReturn(tbLast, "IsAllowed", u, tbPend[p].at, FALSE, r.allowed, r.tokens)
           /\ tbTrace' = TBTraceNext(tbTrace, tbStore[TBSlot(u)], u, tbPend[p].at, tbNow, r.allowed,
                                     tbCfg.MaxTokens + 2)
           /\ tbAdm' = TBAdmNext(tbCfg, tbAdm, u, tbPend[p].at, r.allowed)
           /\ UNCHANGED <<tbCfg, tbNow>>

\* The identities a caller passes: those with keys, and the empty one.
TBIds == DOMAIN tbStore \cup {""}

TBNext ==
    \/ TBTick
    \/ \E u \in TBIds : TBIsAllowed(u)
    \/ \E u \in TBIds : TBGetCurrentTokens(u)
    \/ \E u \in TBIds : TBResetTokens(u)
    \/ \E u \in TBIds, tokens \in TBArgs(tbCfg) : TBAddTokens(u, tokens)
    \/ \E u \in TBIds, tokens \in TBArgs(tbCfg) : TBSetTokens(u, tokens)

----------------------------------------------------------------------------
(* LeakyBucketRateLimiter: leaky_bucket.go *)

\* Bounds of the leaky-bucket world.
LBMaxTicks == 5

LBUsers == {"u1"}

\* The server clock starts here (Unix seconds); every call before it left
\* no record.
LBStart == 1000000000

\* time.Now().Unix() of a caller relative to the server clock: callers read
\* their own clocks, the TTL runs on the server's.
LBSkews == {0, -1}

\* NewLeakyBucketRateLimiter's checks (client non-nil, key non-empty are implied).
NewLeakyBucketRateLimiterOK(cfg) ==
    /\ cfg.Rate > 0
    /\ cfg.Capacity > 0

LBConfigs ==
    {c \in {[Rate |-> 2, Capacity |-> 5], [Rate |-> 1, Capacity |-> 3]} :
        NewLeakyBucketRateLimiterOK(c)}

\* The hash of one user; an absent key is has = FALSE with zeros.
LBAbsent == [has |-> FALSE, tokens |-> 0, last_time |-> 0, exp |-> 0]

\* Expiry of the hash at server time t.
LBPurge(b, t) == IF b.has /\ t < b.exp THEN b ELSE LBAbsent

\* local expire_time = math.ceil(capacity / rate)
LBExpireTime(cfg) == (cfg.Capacity + cfg.Rate - 1) \div cfg.Rate

\* HSET tokens, HSET last_time, EXPIRE (when expire_time > 0) at server time t.
LBWrite(cfg, b, tokens, current_time, t) ==
    [has       |-> TRUE,
     tokens    |-> tokens,
     last_time |-> current_time,
     exp       |-> IF LBExpireTime(cfg) > 0 THEN t + LBExpireTime(cfg)
                   ELSE IF b.has THEN b.exp ELSE NoExp]

\* The leak without the clamp at capacity.
LBLeak_NoClamp(cfg, b, current_time) ==
    LET tokens        == IF b.has THEN b.tokens ELSE cfg.Capacity
        last_time     == IF b.has THEN b.last_time ELSE 0
        elapsed       == current_time - last_time
        leaked_tokens == elapsed * cfg.Rate
    IN  [tokens |-> tokens + leaked_tokens, elapsed |-> elapsed]

\* The part shared by the IsAllowed, GetCurrentTokens and AddTokens scripts:
\* read the hash (tokens default capacity, last_time default 0) and credit
\* elapsed * rate, clamped at capacity.
LBLeak(cfg, b, current_time) ==
    LET tokens        == IF b.has THEN b.tokens ELSE cfg.Capacity
        last_time     == IF b.has THEN b.last_time ELSE 0
        elapsed       == current_time - last_time
        leaked_tokens == elapsed * cfg.Rate
    IN  [tokens |-> Min(cfg.Capacity, tokens + leaked_tokens), elapsed |-> elapsed]

\* The IsAllowed script letting a request through at level 0.
LBIsAllowedScript_AllowsAtZero(cfg, b, current_time, t) ==
    LET r == LBLeak(cfg, b, current_time)
    IN  IF r.tokens >= 0
        THEN [b       |-> LBWrite(cfg, b, r.tokens - 1, current_time, t),
              allowed |-> TRUE,
              tokens  |-> r.tokens - 1,
              elapsed |-> r.elapsed]
        ELSE [b       |-> LBWrite(cfg, b, r.tokens, current_time, t),
              allowed |-> FALSE,
              tokens  |-> r.tokens,
              elapsed |-> r.elapsed]

\* The IsAllowed script keeping the old timestamp when it denies.
LBIsAllowedScript_DenyKeepsTime(cfg, b, current_time, t) ==
    LET r == LBLeak(cfg, b, current_time)
    IN  IF r.tokens >= 1
        THEN [b       |-> LBWrite(cfg, b, r.tokens - 1, current_time, t),
              allowed |-> TRUE,
              tokens  |-> r.tokens - 1,
              elapsed |-> r.elapsed]
        ELSE [b       |-> LBWrite(cfg, b, r.tokens, IF b.has THEN b.last_time ELSE 0, t),
              allowed |-> FALSE,
              tokens  |-> r.tokens,
              elapsed |-> r.elapsed]

\* The Lua script of LeakyBucketRateLimiter.IsAllowed at server time t.
LBIsAllowedScript(cfg, b, current_time, t) ==
    LET r == LBLeak(cfg, b, current_time)
    IN  IF r.tokens >= 1
        THEN [b       |-> LBWrite(cfg, b, r.tokens - 1, current_time, t),
              allowed |-> TRUE,
              tokens  |-> r.tokens - 1,
              elapsed |-> r.elapsed]
        ELSE [b       |-> LBWrite(cfg, b, r.tokens, current_time, t),
              allowed |-> FALSE,
              tokens  |-> r.tokens,
              elapsed |-> r.elapsed]

\* The GetCurrentTokens script storing the level but not the new timestamp.
LBGetCurrentTokensScript_KeepsTime(cfg, b, current_time, t) ==
    LET r == LBLeak(cfg, b, current_time)
    IN  [b       |-> LBWrite(cfg, b, r.tokens, IF b.has THEN b.last_time ELSE 0, t),
         tokens  |-> r.tokens,
         elapsed |-> r.elapsed]

\* The Lua script of LeakyBucketRateLimiter.GetCurrentTokens.
LBGetCurrentTokensScript(cfg, b, current_time, t) ==
    LET r == LBLeak(cfg, b, current_time)
    IN  [b       |-> LBWrite(cfg, b, r.tokens, current_time, t),
         tokens  |-> r.tokens,
         elapsed |-> r.elapsed]

\* The Lua script of LeakyBucketRateLimiter.AddTokens.
LBAddTokensScript(cfg, b, tokens_to_add, current_time, t) ==
    LET r      == LBLeak(cfg, b, current_time)
        tokens == Min(cfg.Capacity, r.tokens + tokens_to_add)
    IN  [b       |-> LBWrite(cfg, b, tokens, current_time, t),
         tokens  |-> tokens,
         elapsed |-> r.elapsed]

\* The Lua script of LeakyBucketRateLimiter.SetTokens.
LBSetTokensScript(cfg, b, tokens_to_set, current_time, t) ==
    [b |-> LBWrite(cfg, b, tokens_to_set, current_time, t), tokens |-> tokens_to_set]

\* The last call that returned: what the script returned (val), the elapsed
\* time it computed, and whether it found the hash absent (fresh).
LBNoLast == [op |-> "none", u |-> "", at |-> 0, err |-> FALSE, allowed |-> FALSE,
             val |-> 0, elapsed |-> 0, fresh |-> FALSE, arg |-> 0]

LBReturn(op, u, at, err, allowed, val, elapsed, fresh) ==
    [op |-> op, u |-> u, at |-> at, err |-> err, allowed |-> allowed,
     val |-> val, elapsed |-> elapsed, fresh |-> fresh, arg |-> 0]

\* The record of a call that was given a number of tokens.
LBReturnArg(last, tokens) == [last EXCEPT !.arg = tokens]

\* Arguments tried for AddTokens and SetTokens.
LBArgs(cfg) == {-1, 0, 1, cfg.Capacity, cfg.Capacity + 1}

\* config.Key of the limiter.
LBKey == "lb"

\* generateKey ignoring the userId.
generateKey_NoUser(userId) == LBKey \o ":"

\* generateKey(userId)
generateKey(userId) == LBKey \o ":" \o userId

\* The hash held under the key generated for userId, named by the identity
\* it was first written for.
LBSlot(userId) == CHOOSE v \in DOMAIN lbStore : generateKey(v) = generateKey(userId)

\* Every method needs the limiter NewLeakyBucketRateLimiter returned; it
\* touches the keys of this limiter only.
LBFrame ==
    /\ NewLeakyBucketRateLimiterOK(lbCfg)
    /\ UNCHANGED <<fwVars, tbVars, v2Vars, ctor, act, tk, aj>>

\* No call in flight, nothing followed.
LBIdle == [op |-> "idle", u |-> "", at |-> 0]

LBNoTrace == [u |-> "", at |-> 0, n |-> 0, a |-> 0]

\* The call finds no hash for the identity.
LBFresh(u) == u # "" /\ ~lbStore[LBSlot(u)].has

LBInit ==
    /\ lbCfg \in LBConfigs
    /\ lbNow = LBStart
    /\ lbStore = [u \in LBUsers |-> LBAbsent]
    /\ lbLast = LBNoLast
    /\ lbPend = [p \in BKProcs |-> LBIdle]
    /\ lbTrace = LBNoTrace

\* The server clock advances by one second; an expired hash disappears.
LBTick ==
    /\ LBFrame
    /\ /\ lbNow + 1 <= LBStart + LBMaxTicks
       /\ lbNow' = lbNow + 1
       /\ lbStore' = [u \in DOMAIN lbStore |-> LBPurge(lbStore[LBSlot(u)], lbNow')]
       /\ UNCHANGED <<lbCfg, lbLast, lbPend, lbTrace>>

\* IsAllowed(ctx, userId) by a caller whose clock reads lbNow + skew: error
\* for an empty userId, else the script.
LBIsAllowed(u, skew) ==
    /\ LBFrame
    /\ IF u = ""
       THEN /\ lbLast' = LBReturn("IsAllowed", u, lbNow + skew, TRUE, FALSE, 0, 0, FALSE)
            /\ UNCHANGED <<lbCfg, lbNow, lbStore, lbPend, lbTrace>>
       ELSE LET r == LBIsAllowedScript(lbCfg, lbStore[LBSlot(u)], lbNow + skew, lbNow)
            IN  /\ lbStore' = [lbStore EXCEPT ![LBSlot(u)] = r.b]
                /\ lbLast' = LBReturn("IsAllowed", u, lbNow + skew, FALSE, r.allowed, r.tokens,
                                      r.elapsed, LBFresh(u))
                /\ UNCHANGED <<lbCfg, lbNow, lbPend, lbTrace>>

\* GetCurrentTokens(ctx, userId)
LBGetCurrentTokens(u, skew) ==
    /\ LBFrame
    /\ IF u = ""
       THEN /\ lbLast' = LBReturn("GetCurrentTokens", u, lbNow + skew, TRUE, FALSE, 0, 0, FALSE)
            /\ UNCHANGED <<lbCfg, lbNow, lbStore, lbPend, lbTrace>>
       ELSE LET r == LBGetCurrentTokensScript(lbCfg, lbStore[LBSlot(u)], lbNow + skew, lbNow)
            IN  /\ lbStore' = [lbStore EXCEPT ![LBSlot(u)] = r.b]
                /\ lbLast' = LBReturn("GetCurrentTokens", u, lbNow + skew, FALSE, FALSE, r.tokens,
                                      r.elapsed, LBFresh(u))
                /\ UNCHANGED <<lbCfg, lbNow, lbPend, lbTrace>>

\* ResetBucket(ctx, userId): client.Del of the hash.
LBResetBucket(u) ==
    /\ LBFrame
    /\ IF u = ""
       THEN /\ lbLast' = LBReturn("ResetBucket", u, lbNow, TRUE, FALSE, 0, 0, FALSE)
            /\ UNCHANGED <<lbCfg, lbNow, lbStore, lbPend, lbTrace>>
       ELSE /\ lbStore' = [lbStore EXCEPT ![LBSlot(u)] = LBAbsent]
            /\ lbLast' = LBReturn("ResetBucket", u, lbNow, FALSE, FALSE, 0, 0, LBFresh(u))
            /\ UNCHANGED <<lbCfg, lbNow, lbPend, lbTrace>>

\* AddTokens(ctx, userId, tokens): error for an empty userId or tokens <= 0,
\* else the script (val is the level the script returns; the Go method
\* returns only the error).
LBAddTokens(u, tokens, skew) ==
    /\ LBFrame
    /\ IF u = "" \/ tokens <= 0
       THEN /\ lbLast' = LBReturnArg(LBReturn("AddTokens", u, lbNow + skew, TRUE, FALSE,
                                             0, 0, LBFresh(u)), tokens)
            /\ UNCHANGED <<lbCfg, lbNow, lbStore, lbPend, lbTrace>>
       ELSE LET r == LBAddTokensScript(lbCfg, lbStore[LBSlot(u)], tokens, lbNow + skew, lbNow)
            IN  /\ lbStore' = [lbStore EXCEPT ![LBSlot(u)] = r.b]
                /\ lbLast' = LBReturnArg(LBReturn("AddTokens", u, lbNow + skew, FALSE,
                                                 FALSE, r.tokens, r.elapsed, LBFresh(u)),
                                        tokens)
                /\ UNCHANGED <<lbCfg, lbNow, lbPend, lbTrace>>

\* SetTokens(ctx, userId, tokens): error for an empty userId or tokens outside
\* 0..capacity, else the script.
LBSetTokens(u, tokens, skew) ==
    /\ LBFrame
    /\ IF u = "" \/ tokens < 0 \/ tokens > lbCfg.Capacity
       THEN /\ lbLast' = LBReturnArg(LBReturn("SetTokens", u, lbNow + skew, TRUE, FALSE,
                                             0, 0, LBFresh(u)), tokens)
            /\ UNCHANGED <<lbCfg, lbNow, lbStore, lbPend, lbTrace>>
       ELSE LET r == LBSetTokensScript(lbCfg, lbStore[LBSlot(u)], tokens, lbNow + skew, lbNow)
            IN  /\ lbStore' = [lbStore EXCEPT ![LBSlot(u)] = r.b]
                /\ lbLast' = LBReturnArg(LBReturn("SetTokens", u, lbNow + skew, FALSE,
                                                 FALSE, r.tokens, 0, LBFresh(u)),
                                        tokens)
                /\ UNCHANGED <<lbCfg, lbNow, lbPend, lbTrace>>

\* History of the IsAllowed calls that concurrent callers issued and the
\* store evaluated within one clock second on an identity found without a
\* hash: n calls, a of them allowed; n = 0 when nothing is followed.
LBTraceNext(trace, b, u, at, now, allowed, cap) ==
    IF at # now
    THEN LBNoTrace
    ELSE IF ~b.has
    THEN [u |-> u, at |-> at, n |-> 1, a |-> IF allowed THEN 1 ELSE 0]
    ELSE IF trace.n > 0 /\ trace.u = u /\ trace.at = at
    THEN [u |-> u, at |-> at, n |-> Min(cap, trace.n + 1),
          a |-> Min(cap, trace.a + IF allowed THEN 1 ELSE 0)]
    ELSE LBNoTrace

\* A caller enters IsAllowed: the key is generated and time.Now().Unix() is
\* read; the script has not run yet.
LBCallIsAllowed(p, u) ==
    /\ LBFrame
    /\ /\ lbPend[p].op = "idle"
       /\ lbPend' = [lbPend EXCEPT ![p] = [op |-> "IsAllowed", u |-> u, at |-> lbNow]]
       /\ UNCHANGED <<lbCfg, lbNow, lbStore, lbLast, lbTrace>>

\* client.Eval of the IsAllowed script with the time the caller read, and the
\* parsing of its result.
LBEvalIsAllowed(p) ==
    /\ LBFrame
    /\ LET u == lbPend[p].u
           r == LBIsAllowedScript(lbCfg, lbStore[LBSlot(u)], lbPend[p].at, lbNow)
       IN  /\ lbPend[p].op = "IsAllowed"
           /\ lbStore' = [lbStore EXCEPT ![LBSlot(u)] = r.b]
           /\ lbPend' = [lbPend EXCEPT ![p] = LBIdle]
           /\ lbLast' = LBReturn("IsAllowed", u, lbPend[p].at, FALSE, r.allowed, r.tokens,
                                 r.elapsed, LBFresh(u))
           /\ lbTrace' = LBTraceNext(lbTrace, lbStore[LBSlot(u)], u, lbPend[p].at, lbNow, r.allowed,
                                     lbCfg.Capacity + 2)
           /\ UNCHANGED <<lbCfg, lbNow>>

\* The identities a caller passes: those with a hash, and the empty one.
LBIds == DOMAIN lbStore \cup {""}

LBNext ==
    \/ LBTick
    \/ \E u \in LBIds, skew \in LBSkews : LBIsAllowed(u, skew)
    \/ \E u \in LBIds, skew \in LBSkews : LBGetCurrentTokens(u, skew)
    \/ \E u \in LBIds : LBResetBucket(u)
    \/ \E u \in LBIds, tokens \in LBArgs(lbCfg), skew \in LBSkews : LBAddTokens(u, tokens, skew)
    \/ \E u \in LBIds, tokens \in LBArgs(lbCfg), skew \in LBSkews : LBSetTokens(u, tokens, skew)

----------------------------------------------------------------------------
(* The constructors *)

\* The redis.UniversalClient handed to a constructor.
CtorClients == {"nil", "redis"}

CtorKeys == {"", "test_key"}

\* RateLimitConfig values tried (TimeUnit in ms).
RLMaxCounts == {-1, 0, 1, 2, 3, 5, 100, 10000, 10001}

RLTimeUnits == {-1000, 0, 100, 999, 1000, 10000, 10001, MsPerMinute, MsPerHour,
                MsPerDay, MsPerDay + 1}

\* TokenBucketConfig values tried (RefillInterval in ms).
TBMaxTokensTried == {-1, 0, 1, 2, 5, 86400}

TBRefillIntervals == {-1000, 0, 500, 1000, 1999, 2000, 20000}

TBTokensPerRefills == {-1, 0, 1, 2}

\* A constructor returning (nil, err).
CtorError == [err |-> TRUE, limiter |-> <<>>]

\* NewRateLimiter(client, config): (limiter, nil) or (nil, err).
NewRateLimiter(client, config) ==
    IF \/ client = "nil"
       \/ config.Key = ""
       \/ ~NewRateLimiterOK([maxCount |-> config.MaxCount, timeUnit |-> config.TimeUnit])
    THEN CtorError
    ELSE [err |-> FALSE,
          limiter |-> [key |-> config.Key, maxCount |-> config.MaxCount,
                       timeUnit |-> config.TimeUnit]]

\* RateLimiter.GetConfig
GetConfig(rl) == <<rl.key, rl.maxCount, rl.timeUnit>>

\* NewTokenBucketRateLimiter(client, config): (limiter, nil) or (nil, err).
NewTokenBucketRateLimiter(client, config) ==
    IF \/ client = "nil"
       \/ config.Key = ""
       \/ ~NewTokenBucketRateLimiterOK(config)
    THEN CtorError
    ELSE [err |-> FALSE,
          limiter |-> [key |-> config.Key, maxTokens |-> config.MaxTokens,
                       refillInterval |-> config.RefillInterval,
                       tokensPerRefill |-> tokensPerRefill(config)]]

CtorNone == [fn |-> "none", client |-> "nil", config |-> <<>>, err |-> FALSE, limiter |-> <<>>]

\* A constructor touches no key of any limiter.
CtorFrame == UNCHANGED <<fwVars, tbVars, lbVars, v2Vars, act, tk, aj>>

\* A caller builds a RateLimitConfig and hands it to NewRateLimiter.
CallNewRateLimiter(client, k, n, d) ==
    /\ CtorFrame
    /\ LET config == [Key |-> k, MaxCount |-> n, TimeUnit |-> d]
       IN  ctor' = [fn |-> "NewRateLimiter", client |-> client, config |-> config,
                    err |-> NewRateLimiter(client, config).err,
                    limiter |-> NewRateLimiter(client, config).limiter]

\* A caller builds a TokenBucketConfig and hands it to NewTokenBucketRateLimiter.
CallNewTokenBucketRateLimiter(client, k, n, d, r) ==
    /\ CtorFrame
    /\ LET config == [Key |-> k, MaxTokens |-> n, RefillInterval |-> d,
                      TokensPerRefill |-> r]
       IN  ctor' = [fn |-> "NewTokenBucketRateLimiter", client |-> client,
                    config |-> config,
                    err |-> NewTokenBucketRateLimiter(client, config).err,
                    limiter |-> NewTokenBucketRateLimiter(client, config).limiter]

CtorNext ==
    \/ \E client \in CtorClients, k \in CtorKeys, n \in RLMaxCounts, d \in RLTimeUnits :
          CallNewRateLimiter(client, k, n, d)
    \/ \E client \in CtorClients, k \in CtorKeys, n \in TBMaxTokensTried,
          d \in TBRefillIntervals, r \in TBTokensPerRefills :
          CallNewTokenBucketRateLimiter(client, k, n, d, r)

----------------------------------------------------------------------------
(* ActivationV1: package activations *)

\* The service of the model: NewActivationV1(SignatureLength, total,
\* BaseChars, secret) with a three-character alphabet and ten numbers.
ActBaseChars == <<"j", "S", "Y">>

ActTotal == 10

\* Values tried beyond both ends of [0, total).
ActOver == 2

\* any_base.DecimalToAny(num, num2char): the digits of num, most significant
\* first; the empty string for num <= 0.
RECURSIVE DecimalToAny(_, _)
DecimalToAny(num, num2char) ==
    IF num <= 0
    THEN <<>>
    ELSE DecimalToAny(num \div Len(num2char), num2char)
             \o <<num2char[(num % Len(num2char)) + 1]>>

\* The loop of getCount: the number of divisions that take temp to 0.
RECURSIVE CountDigits(_, _)
CountDigits(temp, number) ==
    IF temp > 0 THEN 1 + CountDigits(temp \div number, number) ELSE 0

\* ActivationV1.getCount(total)
getCount(total) ==
    IF total <= 0
    THEN 1
    ELSE IF CountDigits(total - 1, Len(ActBaseChars)) = 0
         THEN 1
         ELSE CountDigits(total - 1, Len(ActBaseChars))

\* The padding loop of getNumberStr.
RECURSIVE PadLeft(_, _, _)
PadLeft(str, c, count) == IF Len(str) < count THEN PadLeft(<<c>> \o str, c, count) ELSE str

\* ActivationV1.getNumberStr(num)
getNumberStr(num) ==
    PadLeft(DecimalToAny(num, ActBaseChars), ActBaseChars[1], getCount(ActTotal))

\* ActivationV1.getSign(numberStr): the first 2 * SignatureLength hex digits
\* of HMAC-SHA256(secret, numberStr).  The digest is not computed: each half
\* is named by the string it signs.
getSign(numberStr) == [head |-> <<"hmac[:N]", numberStr>>, tail |-> <<"hmac[N:2N]", numberStr>>]

\* strconv.Atoi on the characters of a string: an optional sign, then
\* decimal digits only, at least one.
DigitOf(c) ==
    CASE c = "0" -> 0 [] c = "1" -> 1 [] c = "2" -> 2 [] c = "3" -> 3 [] c = "4" -> 4
      [] c = "5" -> 5 [] c = "6" -> 6 [] c = "7" -> 7 [] c = "8" -> 8 [] c = "9" -> 9
      [] OTHER -> -1

RECURSIVE AtoiDigits(_, _)
AtoiDigits(str, n) ==
    IF str = <<>>
    THEN [num |-> n, err |-> FALSE]
    ELSE IF DigitOf(Head(str)) < 0
         THEN [num |-> 0, err |-> TRUE]
         ELSE AtoiDigits(Tail(str), n * 10 + DigitOf(Head(str)))

Atoi(str) ==
    LET signed == str # <<>> /\ Head(str) \in {"-", "+"}
        digits == IF signed THEN Tail(str) ELSE str
        r      == AtoiDigits(digits, 0)
    IN  IF digits = <<>> \/ r.err
        THEN [num |-> 0, err |-> TRUE]
        ELSE [num |-> IF signed /\ Head(str) = "-" THEN -r.num ELSE r.num, err |-> FALSE]

\* int(f) of a float given in tenths: the fraction is dropped.
TruncTenths(n) == IF n >= 0 THEN n \div 10 ELSE -((-n) \div 10)

\* ActivationV1.getNumber(number).  The argument is a tagged value: its
\* dynamic type, its value n (in tenths for a float), the characters of a
\* string, and whether the value lies beyond the range of int (big).
getNumber(number) ==
    CASE number.type \in {"int", "int32", "int64", "uint8", "uint16", "uint32", "uintptr"} ->
             [num |-> number.n, err |-> FALSE]
      [] number.type \in {"uint", "uint64"} ->
             IF number.big THEN [num |-> 0, err |-> TRUE]
             ELSE [num |-> number.n, err |-> FALSE]
      [] number.type = "string" -> Atoi(number.s)
      [] number.type \in {"float32", "float64"} ->
             IF number.big THEN [num |-> 0, err |-> TRUE]
             ELSE [num |-> TruncTenths(number.n), err |-> FALSE]
      [] OTHER -> [num |-> 0, err |-> TRUE]

\* ActivationV1.check(number, err): `return 0, nil` on both failures.
check(number) ==
    LET g == getNumber(number)
    IN  IF g.err
        THEN [num |-> 0, err |-> FALSE]
        ELSE IF g.num < 0 \/ g.num >= ActTotal
             THEN [num |-> 0, err |-> FALSE]
             ELSE [num |-> g.num, err |-> g.err]

\* No code: the zero value of the named result res.
ActNoCode == <<>>

\* ActivationV1.GenerateActivationCode(number): sign[:N] + numberStr + sign[N:].
GenerateActivationCode(number) ==
    LET c == check(number)
    IN  IF c.err
        THEN [res |-> ActNoCode, err |-> TRUE]
        ELSE [res |-> <<getSign(getNumberStr(c.num)).head, getNumberStr(c.num),
                        getSign(getNumberStr(c.num)).tail>>,
              err |-> FALSE]

\* The arguments tried, by dynamic type.
ActTypes == {"int", "int32", "int64", "uint", "uint8", "uint16", "uint32", "uint64",
             "uintptr", "string", "float32", "float64", "bool"}

ActChars == {"0", "1", "7", "9", "-", "x"}

ActStrings == {<<>>} \cup {<<a>> : a \in ActChars} \cup {<<a, b>> : a, b \in ActChars}

ActInts(type) ==
    CASE type \in {"int", "int32", "int64"} -> (0 - ActOver)..(ActTotal + ActOver - 1)
      [] type \in {"float32", "float64"} -> {-15, -5, 0, 5, 25, 99, 100, 105}
      [] type = "string" -> {0}
      [] type = "bool" -> {0, 1}
      [] OTHER -> 0..(ActTotal + ActOver - 1)

ActNone == [fn |-> "none", number |-> [type |-> "", n |-> 0, s |-> <<>>, big |-> FALSE],
            res |-> ActNoCode, err |-> FALSE]

ActFrame == UNCHANGED <<fwVars, tbVars, lbVars, v2Vars, ctor, tk, aj>>

\* A caller hands a value of some type to GenerateActivationCode.
CallGenerateActivationCode(type, n, s, big) ==
    /\ ActFrame
    /\ LET number == [type |-> type, n |-> n, s |-> s, big |-> big]
       IN  act' = [fn |-> "GenerateActivationCode", number |-> number,
                   res |-> GenerateActivationCode(number).res,
                   err |-> GenerateActivationCode(number).err]

ActNext ==
    \E type \in ActTypes :
        \E n \in ActInts(type), s \in IF type = "string" THEN ActStrings ELSE {<<>>} :
            \E big \in IF type \in {"uint", "uint64", "float32", "float64"} /\ n = 0
                       THEN BOOLEAN ELSE {FALSE} :
                CallGenerateActivationCode(type, n, s, big)

----------------------------------------------------------------------------
(* TokenBucket: package token_bucket (in-process, a buffered channel) *)

\* Bounds of the in-process bucket: Pop calls made and tokens asked per call.
TKMaxPops == 4
TKMaxNum == 2

\* TestDo: NewTokenBucket(100), go TickerPush(1, 10), 120 times Pop(1).
TKTestDo == [max |-> 100, num |-> 10, pops |-> 120, k |-> 1]

\* NewTokenBucket(max), the num of TickerPush(intervalSecond, num), and the
\* caller: the Pop calls it makes and the most tokens it asks of one call.
TKConfigs ==
    {[max |-> 2, num |-> 1, pops |-> TKMaxPops, k |-> TKMaxNum],
     [max |-> 2, num |-> 2, pops |-> TKMaxPops, k |-> TKMaxNum],
     [max |-> 3, num |-> 2, pops |-> TKMaxPops, k |-> TKMaxNum],
     TKTestDo}

\* No bucket was made.
TKNone == [max |-> 0, num |-> 0, pops |-> 0, k |-> 0, c |-> 0, closed |-> FALSE,
           ticker |-> [pc |-> "off", i |-> 0],
           pop |-> 0, calls |-> 0, taken |-> 0, empty |-> FALSE]

\* NewTokenBucket(max): c = make(chan struct{}, max); c is the number of
\* tokens buffered.  pop: receives the running Pop call has still to do;
\* taken: tokens received so far; empty: a receive has returned without a
\* token.
NewTokenBucket(cfg) ==
    [max |-> cfg.max, num |-> cfg.num, pops |-> cfg.pops, k |-> cfg.k,
     c |-> 0, closed |-> FALSE,
     ticker |-> [pc |-> "off", i |-> 0],
     pop |-> 0, calls |-> 0, taken |-> 0, empty |-> FALSE]

TKFrame ==
    /\ tk # TKNone
    /\ UNCHANGED <<fwVars, tbVars, lbVars, v2Vars, ctor, act, aj>>

\* go tokenBucket.TickerPush(intervalSecond, num): the goroutine starts with
\* t.Push(num).
TKGoTickerPush ==
    /\ TKFrame
    /\ tk.ticker.pc = "off"
    /\ tk' = [tk EXCEPT !.ticker = IF tk.num > 0 THEN [pc |-> "Push", i |-> tk.num]
                                  ELSE [pc |-> "wait", i |-> 0]]

\* t.c <- struct{}{} in Push, called by TickerPush: it blocks while the
\* buffer is full and panics on a closed channel.
TKSend ==
    /\ TKFrame
    /\ tk.ticker.pc = "Push"
    /\ IF tk.closed
       THEN tk' = [tk EXCEPT !.ticker = [pc |-> "panic", i |-> tk.ticker.i]]
       ELSE /\ tk.c < tk.max
            /\ tk' = [tk EXCEPT !.c = tk.c + 1,
                                !.ticker = IF tk.ticker.i = 1 THEN [pc |-> "wait", i |-> 0]
                                           ELSE [pc |-> "Push", i |-> tk.ticker.i - 1]]

\* TickerPush refilling when fewer than max-num tokens are present.
TKTicker_StrictlyBelow ==
    /\ TKFrame
    /\ tk.ticker.pc = "wait"
    /\ tk' = IF tk.c < tk.max - tk.num /\ tk.num > 0
             THEN [tk EXCEPT !.ticker = [pc |-> "Push", i |-> tk.num]]
             ELSE tk

\* case <-ticker.C in TickerPush: if len(t.c) <= t.max-num { t.Push(num) }.
TKTicker ==
    /\ TKFrame
    /\ tk.ticker.pc = "wait"
    /\ tk' = IF tk.c <= tk.max - tk.num /\ tk.num > 0
             THEN [tk EXCEPT !.ticker = [pc |-> "Push", i |-> tk.num]]
             ELSE tk

\* The caller enters Pop(num).
TKCallPop(num) ==
    /\ TKFrame
    /\ tk.pop = 0
    /\ num <= tk.k
    /\ tk.calls < tk.pops
    /\ tk' = [tk EXCEPT !.pop = num, !.calls = tk.calls + 1]

\* <-t.c in Pop: it takes a token, blocks while the buffer is empty, and
\* returns at once (without a token) when the channel is closed and empty.
TKReceive ==
    /\ TKFrame
    /\ tk.pop > 0
    /\ IF tk.c > 0
       THEN tk' = [tk EXCEPT !.c = tk.c - 1, !.pop = tk.pop - 1,
                             !.taken = tk.taken + 1]
       ELSE /\ tk.closed
            /\ tk' = [tk EXCEPT !.pop = tk.pop - 1, !.empty = TRUE]

\* Close(): close(t.c), called once.
TKClose ==
    /\ TKFrame
    /\ ~tk.closed
    /\ tk' = [tk EXCEPT !.closed = TRUE]

\* The bucket while it is open.
TKOpenNext ==
    \/ TKGoTickerPush
    \/ TKSend
    \/ TKTicker
    \/ \E num \in 1..TKMaxNum : TKCallPop(num)
    \/ TKReceive

TKNext == TKOpenNext \/ TKClose

----------------------------------------------------------------------------
(* async_job: package async_job, keyed by context and keyed by string *)

\* Bounds of async_job: concurrent callers of Push, Push calls, Run calls.
AJNumProcs == 2
AJMaxPush == 3
AJMaxRuns == 2

AJProcs == 1..AJNumProcs

\* The contexts and the key strings callers pass.
AJCtxs == {"ctx1", "ctx2"}

AJKeyStrs == {"k1"}

\* The keys of instanceSM: a context.Context or a string.
AJRegKeys == {<<"ctx", c>> : c \in AJCtxs} \cup {<<"key", k>> : k \in AJKeyStrs}

\* The key getInstance is called with for (ctx, key): the context in
\* Push(ctx, f) / Run(ctx, ...), the string in Push(_, key, f) / Run(ctx, key, ...).
AJInstanceKey(variant, ctx, key) ==
    IF variant = "ctx" THEN <<"ctx", ctx>> ELSE <<"key", key>>

\* The key strings callers pass, and none in the variant keyed by context.
AJCallKeyStrs == AJKeyStrs \cup {""}

\* The (ctx, key) Push and Run are called with in a variant.
AJCall(variant, ctx, key) ==
    IF variant = "ctx" THEN key = "" ELSE ctx = "ctx1" /\ key \in AJKeyStrs

AJIdle == [pc |-> "idle", rk |-> <<>>, f |-> <<>>, result |-> 0]

AJNoLast == [op |-> "none", rk |-> <<>>, ran |-> <<>>, panicked |-> FALSE,
             pushed |-> <<>>, entry |-> FALSE]

\* The package before its first call (and of no variant).
AJNone == [variant |-> "none", reg |-> <<>>, objs |-> <<>>, pend |-> <<>>,
           pushed |-> <<>>, last |-> AJNoLast, npush |-> 0, runs |-> 0]

\* instanceSM = sync.Map{}: reg maps a key to its *jobList (0: no entry),
\* objs holds the jobs of every jobList allocated.  pushed: the jobs whose
\* Push has returned since the last Run on the key.
AJInit(variant) ==
    [variant |-> variant,
     reg     |-> [rk \in AJRegKeys |-> 0],
     objs    |-> <<>>,
     pend    |-> [p \in AJProcs |-> AJIdle],
     pushed  |-> [rk \in AJRegKeys |-> <<>>],
     last    |-> AJNoLast,
     npush   |-> 0,
     runs    |-> 0]

AJFrame ==
    /\ aj # AJNone
    /\ UNCHANGED <<fwVars, tbVars, lbVars, v2Vars, ctor, act, tk>>

\* getInstance: Load, and on a miss a new jobList that is stored.
getInstance(a, rk) ==
    IF a.reg[rk] = 0
    THEN [a      |-> [a EXCEPT !.objs = Append(a.objs, <<>>),
                               !.reg[rk] = Len(a.objs) + 1],
          result |-> Len(a.objs) + 1]
    ELSE [a |-> a, result |-> a.reg[rk]]

\* result.Lock(); result.jobs = append(result.jobs, f); result.Unlock()
AJAppend(a, result, f) == [a EXCEPT !.objs[result] = Append(a.objs[result], f)]

\* The jobs a Run executes: those of the list up to the first that panics.
RECURSIVE AJRan(_)
AJRan(jobs) ==
    IF jobs = <<>> THEN <<>>
    ELSE IF Head(jobs).panics THEN <<Head(jobs)>>
    ELSE <<Head(jobs)>> \o AJRan(Tail(jobs))

\* The job of the n-th Push call.
AJJob(n, panics) == [id |-> n, panics |-> panics]

\* Push by a single caller: getInstance, then the append under the lock.
Push(ctx, key, panics) ==
    /\ AJFrame
    /\ AJCall(aj.variant, ctx, key)
    /\ \A p \in AJProcs : aj.pend[p].pc = "idle"
    /\ aj.npush < AJMaxPush
    /\ LET rk == AJInstanceKey(aj.variant, ctx, key)
           f  == AJJob(aj.npush + 1, panics)
           g  == getInstance(aj, rk)
       IN  aj' = [AJAppend(g.a, g.result, f) EXCEPT
                     !.pushed[rk] = Append(aj.pushed[rk], f),
                     !.npush = aj.npush + 1]

\* A caller enters Push: instanceSM.Load in getInstance; on a miss the new
\* jobList is allocated, not yet stored.
AJLoad(p, ctx, key, panics) ==
    /\ AJFrame
    /\ AJCall(aj.variant, ctx, key)
    /\ aj.pend[p].pc = "idle"
    /\ aj.npush < AJMaxPush
    /\ LET rk == AJInstanceKey(aj.variant, ctx, key)
           f  == AJJob(aj.npush + 1, panics)
       IN  aj' = IF aj.reg[rk] = 0
                 THEN [aj EXCEPT !.objs = Append(aj.objs, <<>>),
                                 !.pend[p] = [pc |-> "Store", rk |-> rk, f |-> f,
                                              result |-> Len(aj.objs) + 1],
                                 !.npush = aj.npush + 1]
                 ELSE [aj EXCEPT !.pend[p] = [pc |-> "append", rk |-> rk, f |-> f,
                                              result |-> aj.reg[rk]],
                                 !.npush = aj.npush + 1]

\* instanceSM.LoadOrStore in place of Load and Store: the list already
\* stored is kept.
AJStore_LoadOrStore(p) ==
    /\ AJFrame
    /\ aj.pend[p].pc = "Store"
    /\ aj' = IF aj.reg[aj.pend[p].rk] = 0
             THEN [aj EXCEPT !.reg[aj.pend[p].rk] = aj.pend[p].result,
                             !.pend[p].pc = "append"]
             ELSE [aj EXCEPT !.pend[p].result = aj.reg[aj.pend[p].rk],
                             !.pend[p].pc = "append"]

\* instanceSM.Store(key, result) in getInstance after a miss.
AJStore(p) ==
    /\ AJFrame
    /\ aj.pend[p].pc = "Store"
    /\ aj' = [aj EXCEPT !.reg[aj.pend[p].rk] = aj.pend[p].result,
                        !.pend[p].pc = "append"]

\* The append under the lock; Push returns.
AJAppendReturn(p) ==
    /\ AJFrame
    /\ aj.pend[p].pc = "append"
    /\ aj' = [AJAppend(aj, aj.pend[p].result, aj.pend[p].f) EXCEPT
                 !.pushed[aj.pend[p].rk] = Append(aj.pushed[aj.pend[p].rk], aj.pend[p].f),
                 !.pend[p] = AJIdle]

\* Run deleting the entry it read (delInstance of the key of getInstance).
Run_DeletesItsKey(ctx, key) ==
    /\ AJFrame
    /\ AJCall(aj.variant, ctx, key)
    /\ aj.runs < AJMaxRuns
    /\ LET rk   == AJInstanceKey(aj.variant, ctx, key)
           g    == getInstance(aj, rk)
           jobs == g.a.objs[g.result]
           ran  == AJRan(jobs)
           a2   == [g.a EXCEPT !.reg[rk] = 0]
       IN  aj' = [a2 EXCEPT
                     !.pushed[rk] = <<>>,
                     !.runs = aj.runs + 1,
                     !.last = [op |-> "Run", rk |-> rk, ran |-> ran,
                               panicked |-> (ran # <<>> /\ ran[Len(ran)].panics),
                               pushed |-> aj.pushed[rk],
                               entry |-> (a2.reg[rk] # 0)]]

\* Run: getInstance, the jobs in order (a panic ends the loop), then the
\* deferred delInstance(ctx) and hotfix.RecoverError().
Run(ctx, key) ==
    /\ AJFrame
    /\ AJCall(aj.variant, ctx, key)
    /\ aj.runs < AJMaxRuns
    /\ LET rk   == AJInstanceKey(aj.variant, ctx, key)
           g    == getInstance(aj, rk)
           jobs == g.a.objs[g.result]
           ran  == AJRan(jobs)
           a2   == [g.a EXCEPT !.reg[<<"ctx", ctx>>] = 0]
       IN  aj' = [a2 EXCEPT
                     !.pushed[rk] = <<>>,
                     !.runs = aj.runs + 1,
                     !.last = [op |-> "Run", rk |-> rk, ran |-> ran,
                               panicked |-> (ran # <<>> /\ ran[Len(ran)].panics),
                               pushed |-> aj.pushed[rk],
                               entry |-> (a2.reg[rk] # 0)]]

\* Run called when every Push has returned.
AJRunAfterPushes(ctx, key) ==
    /\ \A p \in AJProcs : aj.pend[p].pc = "idle"
    /\ Run(ctx, key)

\* One goroutine calling Push and Run.
AJSeqNext ==
    \/ \E ctx \in AJCtxs, key \in AJCallKeyStrs, panics \in BOOLEAN :
          Push(ctx, key, panics)
    \/ \E ctx \in AJCtxs, key \in AJCallKeyStrs :
          Run(ctx, key)

\* Several goroutines calling Push, and Run after they returned.
AJNext ==
    \/ \E p \in AJProcs, ctx \in AJCtxs, key \in AJCallKeyStrs,
          panics \in BOOLEAN :
          AJLoad(p, ctx, key, panics)
    \/ \E p \in AJProcs : AJStore(p)
    \/ \E p \in AJProcs : AJAppendReturn(p)
    \/ \E ctx \in AJCtxs, key \in AJCallKeyStrs :
          AJRunAfterPushes(ctx, key)

----------------------------------------------------------------------------
(* Store failures: client.Eval returning an error or an unusable result *)

\* MaxRetries of the client NewRedis builds: a command that fails with a
\* timeout or a broken connection is sent again, up to maxRetry times.
maxRetry == 3

\* How often the server may have run the script of an Eval that failed for
\* its caller: never (the request did not reach it), or once per attempt
\* whose reply did not come back usable (timeout, broken connection, a reply
\* that is not the two-element array).
ScriptRuns == 0..(1 + maxRetry)

\* The store after n runs of the IsAllowed script of RateLimiter.
RECURSIVE FWRunIsAllowed(_, _, _, _, _)
FWRunIsAllowed(cfg, store, key, t, n) ==
    IF n = 0 THEN store
    ELSE IsAllowedScript(cfg, FWRunIsAllowed(cfg, store, key, t, n - 1), key, t).store

\* The keys of an identity after n runs of the token bucket's IsAllowed script.
RECURSIVE TBRunIsAllowed(_, _, _, _)
TBRunIsAllowed(cfg, b, t, n) ==
    IF n = 0 THEN b
    ELSE TBIsAllowedScript(cfg, TBRunIsAllowed(cfg, b, t, n - 1), t, t).b

\* The hash of an identity after n runs of the leaky bucket's IsAllowed script.
RECURSIVE LBRunIsAllowed(_, _, _, _)
LBRunIsAllowed(cfg, b, t, n) ==
    IF n = 0 THEN b
    ELSE LBIsAllowedScript(cfg, LBRunIsAllowed(cfg, b, t, n - 1), t, t).b

\* RateLimiter.IsAllowed when its Eval fails after the server ran the script
\* runs times: (false, 0, err).
FWIsAllowedFails(runs) ==
    /\ FWFrame
    /\ LET key == generateTimeKey(fwCfg, fwNow)
       IN  /\ \A p \in FWProcs : fwPend[p].op = "idle"
           /\ fwStore' = FWRunIsAllowed(fwCfg, fwStore, key, fwNow, runs)
           /\ fwLast' = FWReturn(fwLast, fwStore, fwNow, "IsAllowed", key, fwNow, TRUE, FALSE,
                                 0, fwStore')
           /\ fwTrace' = IF runs = 0 \/ fwTrace.key # key THEN fwTrace ELSE FWNoTrace
           /\ UNCHANGED <<fwCfg, fwNow, fwPend>>

\* The token bucket's IsAllowed as two separate commands, the failure coming
\* between them: the token key is written, the time key is not.
TBIsAllowedFails_Partial(u, runs) ==
    /\ TBFrame
    /\ u # ""
    /\ LET b == tbStore[TBSlot(u)]
           r == TBIsAllowedScript(tbCfg, b, tbNow, tbNow)
       IN  /\ tbStore' = IF runs = 0
                         THEN tbStore
                         ELSE [tbStore EXCEPT ![TBSlot(u)] = TBSetTok(b, r.tokens, tbNow)]
           /\ tbLast' = TBReturn(tbLast, "IsAllowed", u, tbNow, TRUE, FALSE, 0)
           /\ tbAdm' = TBAdmEnd(tbAdm, u)
           /\ UNCHANGED <<tbCfg, tbNow, tbPend, tbTrace>>

\* TokenBucketRateLimiter.IsAllowed when its Eval fails.
TBIsAllowedFails(u, runs) ==
    /\ TBFrame
    /\ u # ""
    /\ tbStore' = [tbStore EXCEPT ![TBSlot(u)] = TBRunIsAllowed(tbCfg, @, tbNow, runs)]
    /\ tbLast' = TBReturn(tbLast, "IsAllowed", u, tbNow, TRUE, FALSE, 0)
    /\ tbAdm' = TBAdmEnd(tbAdm, u)
    /\ UNCHANGED <<tbCfg, tbNow, tbPend, tbTrace>>

\* LeakyBucketRateLimiter.IsAllowed when its Eval fails.
LBIsAllowedFails(u, runs) ==
    /\ LBFrame
    /\ u # ""
    /\ lbStore' = [lbStore EXCEPT ![LBSlot(u)] = LBRunIsAllowed(lbCfg, @, lbNow, runs)]
    /\ lbLast' = LBReturn("IsAllowed", u, lbNow, TRUE, FALSE, 0, 0, LBFresh(u))
    /\ UNCHANGED <<lbCfg, lbNow, lbPend, lbTrace>>

----------------------------------------------------------------------------
(* Specifications: one world moves, the others stay as constructed. *)

\* The worlds that do not move are held at one fixed construction.
FWFrozen ==
    /\ fwCfg = [maxCount |-> 2, timeUnit |-> 1000]
    /\ fwNow = FWStart
    /\ fwStore = <<>>
    /\ fwPend = [p \in FWProcs |-> FWIdle]
    /\ fwLast = FWNoLast
    /\ fwTrace = FWNoTrace

TBFrozen ==
    /\ tbCfg = [MaxTokens |-> 5, RefillInterval |-> 2000, TokensPerRefill |-> 2]
    /\ tbNow = TBStart
    /\ tbStore = [u \in TBUsers |-> TBAbsent]
    /\ tbLast = TBNoLast
    /\ tbPend = [p \in BKProcs |-> TBIdle]
    /\ tbTrace = TBNoTrace
    /\ tbAdm = TBNoAdm

LBFrozen ==
    /\ lbCfg = [Rate |-> 2, Capacity |-> 5]
    /\ lbNow = LBStart
    /\ lbStore = [u \in LBUsers |-> LBAbsent]
    /\ lbLast = LBNoLast
    /\ lbPend = [p \in BKProcs |-> LBIdle]
    /\ lbTrace = LBNoTrace

V2Frozen ==
    /\ v2Cfg = [maxCount |-> 5, timeUnit |-> MsPerHour, timezone |-> 0]
    /\ v2Now = V2Start
    /\ v2Store = <<>>
    /\ v2Last = V2NoLast
    /\ v2Trace = FWNoTrace

CtorFrozen == ctor = CtorNone

ActFrozen == act = ActNone

TKFrozen == tk = TKNone

AJFrozen == aj = AJNone

\* The packages under core as they are before their first call.
CoreFrozen == ActFrozen /\ TKFrozen /\ AJFrozen

\* Construction of each specification.
InitFW == FWInit /\ TBFrozen /\ LBFrozen /\ V2Frozen /\ CtorFrozen /\ CoreFrozen

InitTB == TBInit /\ FWFrozen /\ LBFrozen /\ V2Frozen /\ CtorFrozen /\ CoreFrozen

InitLB == LBInit /\ FWFrozen /\ TBFrozen /\ V2Frozen /\ CtorFrozen /\ CoreFrozen

InitV2 == V2Init /\ FWFrozen /\ TBFrozen /\ LBFrozen /\ CtorFrozen /\ CoreFrozen

InitCtor == CtorFrozen /\ FWFrozen /\ TBFrozen /\ LBFrozen /\ V2Frozen /\ CoreFrozen

InitAct == CoreFrozen /\ CtorFrozen /\ FWFrozen /\ TBFrozen /\ LBFrozen /\ V2Frozen

\* One of the two fixed-window limiters is constructed; the constructor of
\* the other was never called.
FWNone ==
    /\ fwCfg = [maxCount |-> 0, timeUnit |-> 0]
    /\ fwNow = FWStart
    /\ fwStore = <<>>
    /\ fwPend = [p \in FWProcs |-> FWIdle]
    /\ fwLast = FWNoLast
    /\ fwTrace = FWNoTrace

V2None ==
    /\ v2Cfg = [maxCount |-> 0, timeUnit |-> 0, timezone |-> 0]
    /\ v2Now = V2Start
    /\ v2Store = <<>>
    /\ v2Last = V2NoLast
    /\ v2Trace = FWNoTrace

InitRL ==
    /\ TBFrozen /\ LBFrozen /\ CtorFrozen /\ CoreFrozen
    /\ \/ FWInit /\ V2None
       \/ V2Init /\ FWNone

RLNext == FWNext \/ V2Next

\* The identities served when one limiter serves two.
BKUsers == {"u1", "u2"}

\* A bucket limiter whose constructor was never called.
TBNone ==
    /\ tbCfg = [MaxTokens |-> 0, RefillInterval |-> 0, TokensPerRefill |-> 0]
    /\ tbNow = TBStart
    /\ tbStore = [u \in BKUsers |-> TBAbsent]
    /\ tbLast = TBNoLast
    /\ tbPend = [p \in BKProcs |-> TBIdle]
    /\ tbTrace = TBNoTrace
    /\ tbAdm = TBNoAdm

LBNone ==
    /\ lbCfg = [Rate |-> 0, Capacity |-> 0]
    /\ lbNow = LBStart
    /\ lbStore = [u \in BKUsers |-> LBAbsent]
    /\ lbLast = LBNoLast
    /\ lbPend = [p \in BKProcs |-> LBIdle]
    /\ lbTrace = LBNoTrace

\* One of the two bucket limiters, with concurrent callers of IsAllowed;
\* both read one clock.
BKMaxTicks == 1

InitBKConc ==
    /\ FWFrozen /\ V2Frozen /\ CtorFrozen /\ CoreFrozen
    /\ \/ /\ tbCfg = [MaxTokens |-> 2, RefillInterval |-> 2000, TokensPerRefill |-> 1]
          /\ tbNow = TBStart
          /\ tbStore = [u \in TBUsers |-> TBAbsent]
          /\ tbLast = TBNoLast
          /\ tbPend = [p \in BKProcs |-> TBIdle]
          /\ tbTrace = TBNoTrace
          /\ tbAdm = TBNoAdm
          /\ LBNone
       \/ /\ lbCfg = [Rate |-> 1, Capacity |-> 2]
          /\ lbNow = LBStart
          /\ lbStore = [u \in LBUsers |-> LBAbsent]
          /\ lbLast = LBNoLast
          /\ lbPend = [p \in BKProcs |-> LBIdle]
          /\ lbTrace = LBNoTrace
          /\ TBNone

\* One second passes on the clock both limiters read.
BKTick ==
    /\ tbNow + 1 <= TBStart + BKMaxTicks
    /\ tbNow' = tbNow + 1
    /\ lbNow' = lbNow + 1
    /\ tbStore' = [u \in DOMAIN tbStore |-> TBPurge(tbStore[u], tbNow')]
    /\ lbStore' = [u \in DOMAIN lbStore |-> LBPurge(lbStore[u], lbNow')]
    /\ UNCHANGED <<fwVars, v2Vars, ctor, act, tk, aj, tbCfg, tbLast, tbPend, tbTrace, tbAdm,
                   lbCfg, lbLast, lbPend, lbTrace>>

BKConcNext ==
    \/ BKTick
    \/ \E p \in BKProcs, u \in DOMAIN tbStore : TBCallIsAllowed(p, u)
    \/ \E p \in BKProcs : TBEvalIsAllowed(p)
    \/ \E p \in BKProcs, u \in DOMAIN lbStore : LBCallIsAllowed(p, u)
    \/ \E p \in BKProcs : LBEvalIsAllowed(p)

SpecBKConc == InitBKConc /\ [][BKConcNext]_vars

\* One of the two bucket limiters is constructed, serving two identities;
\* the constructor of the other was never called.  The callers' clocks agree
\* with the server's.
InitBK ==
    /\ FWFrozen /\ V2Frozen /\ CtorFrozen /\ CoreFrozen
    /\ \/ /\ tbCfg = [MaxTokens |-> 2, RefillInterval |-> 2000, TokensPerRefill |-> 1]
          /\ tbNow = TBStart
          /\ tbStore = [u \in BKUsers |-> TBAbsent]
          /\ tbLast = TBNoLast
          /\ tbPend = [p \in BKProcs |-> TBIdle]
          /\ tbTrace = TBNoTrace
          /\ tbAdm = TBNoAdm
          /\ LBNone
       \/ /\ lbCfg = [Rate |-> 1, Capacity |-> 2]
          /\ lbNow = LBStart
          /\ lbStore = [u \in BKUsers |-> LBAbsent]
          /\ lbLast = LBNoLast
          /\ lbPend = [p \in BKProcs |-> LBIdle]
          /\ lbTrace = LBNoTrace
          /\ TBNone

BKCalls ==
    \/ \E u \in TBIds : TBIsAllowed(u)
    \/ \E u \in TBIds : TBGetCurrentTokens(u)
    \/ \E u \in TBIds : TBResetTokens(u)
    \/ \E u \in TBIds, tokens \in TBArgs(tbCfg) : TBAddTokens(u, tokens)
    \/ \E u \in TBIds, tokens \in TBArgs(tbCfg) : TBSetTokens(u, tokens)
    \/ \E u \in LBIds : LBIsAllowed(u, 0)
    \/ \E u \in LBIds : LBGetCurrentTokens(u, 0)
    \/ \E u \in LBIds : LBResetBucket(u)
    \/ \E u \in LBIds, tokens \in LBArgs(lbCfg) : LBAddTokens(u, tokens, 0)
    \/ \E u \in LBIds, tokens \in LBArgs(lbCfg) : LBSetTokens(u, tokens, 0)

BKNext == BKTick \/ BKCalls

\* One of RateLimiter, the token bucket and the leaky bucket is constructed;
\* the constructors of the others were never called.
InitAny ==
    /\ CtorFrozen /\ CoreFrozen /\ V2None
    /\ \/ FWInit /\ TBNone /\ LBNone
       \/ /\ tbCfg = [MaxTokens |-> 2, RefillInterval |-> 2000, TokensPerRefill |-> 1]
          /\ tbNow = TBStart
          /\ tbStore = [u \in BKUsers |-> TBAbsent]
          /\ tbLast = TBNoLast
          /\ tbPend = [p \in BKProcs |-> TBIdle]
          /\ tbTrace = TBNoTrace
          /\ tbAdm = TBNoAdm
          /\ FWNone /\ LBNone
       \/ /\ lbCfg = [Rate |-> 1, Capacity |-> 2]
          /\ lbNow = LBStart
          /\ lbStore = [u \in BKUsers |-> LBAbsent]
          /\ lbLast = LBNoLast
          /\ lbPend = [p \in BKProcs |-> LBIdle]
          /\ lbTrace = LBNoTrace
          /\ FWNone /\ TBNone

\* The clock of the constructed bucket limiter advances.
AnyTick ==
    /\ NewTokenBucketRateLimiterOK(tbCfg) \/ NewLeakyBucketRateLimiterOK(lbCfg)
    /\ BKTick

AnyNext == FWNext \/ AnyTick \/ BKCalls

SpecAny == InitAny /\ [][AnyNext]_vars

\* The same limiters, with callers of IsAllowed, of the inspector and of
\* the reset, on a store whose calls may fail.
FailNext ==
    \/ FWTick
    \/ FWIsAllowed
    \/ FWGetCurrentCount
    \/ FWResetRateLimit
    \/ AnyTick
    \/ \E u \in TBIds : TBIsAllowed(u)
    \/ \E u \in TBIds : TBGetCurrentTokens(u)
    \/ \E u \in TBIds : TBResetTokens(u)
    \/ \E u \in LBIds : LBIsAllowed(u, 0)
    \/ \E u \in LBIds : LBGetCurrentTokens(u, 0)
    \/ \E u \in LBIds : LBResetBucket(u)
    \/ \E runs \in ScriptRuns : FWIsAllowedFails(runs)
    \/ \E u \in DOMAIN tbStore, runs \in ScriptRuns : TBIsAllowedFails(u, runs)
    \/ \E u \in DOMAIN lbStore, runs \in ScriptRuns : LBIsAllowedFails(u, runs)

SpecFail == InitAny /\ [][FailNext]_vars

\* Windows that are none of time.Second, time.Minute, time.Hour and 24h, next
\* to the calendar ones.
WinConfigs ==
    FWConfigs \cup {c \in {[maxCount |-> 1, timeUnit |-> 1500],
                           [maxCount |-> 2, timeUnit |-> 2500]} : NewRateLimiterOK(c)}

WinConfigsV2 ==
    V2Configs \cup {c \in {[maxCount |-> 1, timeUnit |-> 1500, timezone |-> 0],
                           [maxCount |-> 2, timeUnit |-> 2000, timezone |-> 0]} :
                       NewRateLimiterV2OK(c)}

\* One fixed-window limiter, used through IsAllowed and the read-only
\* inspectors: no administrative call is made.
InitWin ==
    /\ TBFrozen /\ LBFrozen /\ CtorFrozen /\ CoreFrozen
    /\ \/ /\ fwCfg \in WinConfigs
          /\ fwNow = FWStart
          /\ fwStore = <<>>
          /\ fwPend = [p \in FWProcs |-> FWIdle]
          /\ fwLast = FWNoLast
          /\ fwTrace = FWNoTrace
          /\ V2None
       \/ /\ v2Cfg \in WinConfigsV2
          /\ v2Now = V2Start
          /\ v2Store = <<>>
          /\ v2Last = V2NoLast
          /\ v2Trace = FWNoTrace
          /\ FWNone

WinNext ==
    \/ FWTick
    \/ FWIsAllowed
    \/ FWGetCurrentCount
    \/ V2Tick
    \/ V2IsAllowed
    \/ V2GetCurrentCount
    \/ V2GetRemainingCount

SpecWin == InitWin /\ [][WinNext]_vars

\* A token bucket in steady operation (no administrative call), the
\* admissions of its first identity being followed.
InitAdm ==
    /\ FWFrozen /\ LBFrozen /\ V2Frozen /\ CtorFrozen /\ CoreFrozen
    /\ tbCfg \in TBConfigs
    /\ tbNow = TBStart
    /\ tbStore = [u \in TBUsers |-> TBAbsent]
    /\ tbLast = TBNoLast
    /\ tbPend = [p \in BKProcs |-> TBIdle]
    /\ tbTrace = TBNoTrace
    /\ tbAdm = TBAdmArmed

AdmNext ==
    \/ TBTick
    \/ \E u \in TBIds : TBIsAllowed(u)
    \/ \E u \in TBIds : TBGetCurrentTokens(u)

SpecAdm == InitAdm /\ [][AdmNext]_vars

SpecBK == InitBK /\ [][BKNext]_vars

SpecRL == InitRL /\ [][RLNext]_vars

SpecV2 == InitV2 /\ [][V2Next]_vars

SpecCtor == InitCtor /\ [][CtorNext]_vars

SpecAct == InitAct /\ [][ActNext]_vars

InitTK ==
    /\ FWFrozen /\ TBFrozen /\ LBFrozen /\ V2Frozen /\ CtorFrozen /\ ActFrozen /\ AJFrozen
    /\ \E cfg \in TKConfigs : tk = NewTokenBucket(cfg)

InitAJ ==
    /\ FWFrozen /\ TBFrozen /\ LBFrozen /\ V2Frozen /\ CtorFrozen /\ ActFrozen /\ TKFrozen
    /\ \E variant \in {"ctx", "key"} : aj = AJInit(variant)

SpecAJSeq == InitAJ /\ [][AJSeqNext]_vars

SpecAJ == InitAJ /\ [][AJNext]_vars

SpecTK == InitTK /\ [][TKNext]_vars

\* The bucket that is never closed: the go statement takes effect, the
\* ticker keeps firing, and a goroutine that can send or receive does.
SpecTKOpen ==
    /\ InitTK
    /\ [][TKOpenNext]_vars
    /\ WF_vars(TKGoTickerPush)
    /\ WF_vars(TKSend)
    /\ WF_vars(TKTicker)
    /\ WF_vars(TKReceive)

SpecFW == InitFW /\ [][FWNext]_vars

SpecFWConc == InitFW /\ [][FWConcNext]_vars

SpecTB == InitTB /\ [][TBNext]_vars

SpecLB == InitLB /\ [][LBNext]_vars

----------------------------------------------------------------------------
(* Token-bucket claims *)

\* C5: every stored token count lies in 0..maxTokens.
C5_TokensInRange ==
    \A u \in TBUsers : tbStore[u].hasTok =>
        (0 <= tbStore[u].tok /\ tbStore[u].tok <= tbCfg.MaxTokens)

\* AddTokens of more than the bucket holds has been clamped to maxTokens.
C5_Witness ==
    /\ tbLast.op = "AddTokens" /\ ~tbLast.err /\ tbLast.val > tbCfg.MaxTokens
    /\ tbStore[tbLast.u].hasTok /\ tbStore[tbLast.u].tok = tbCfg.MaxTokens

\* What the scripts read from user u's keys at time t.
TBTokensRead(u) == IF tbStore[u].hasTok THEN tbStore[u].tok ELSE tbCfg.MaxTokens

TBLastRefillRead(u) == IF tbStore[u].hasTime THEN tbStore[u].time ELSE tbNow

TBCycles(u) == (tbNow - TBLastRefillRead(u)) \div refillSeconds(tbCfg)

\* C7: an IsAllowed or GetCurrentTokens step that finds cycles >= 1 elapsed
\* refill intervals stores lastRefill + cycles*refillInterval and
\* min(maxTokens, tokens + cycles*tokensPerRefill) (less the token an
\* IsAllowed takes), and from the state it leaves the next credit is due
\* exactly from lastRefill + (cycles+1)*refillInterval on.
C7_Step ==
    \A u \in TBUsers :
        ( /\ tbNow' = tbNow
          /\ tbLast' # tbLast \/ tbStore' # tbStore
          /\ tbLast'.u = u
          /\ tbLast'.op \in {"IsAllowed", "GetCurrentTokens"}
          /\ TBCycles(u) >= 1 )
        =>
        LET I      == refillSeconds(tbCfg)
            credit == Min(tbCfg.MaxTokens,
                          TBTokensRead(u) + TBCycles(u) * tokensPerRefill(tbCfg))
            taken  == IF tbLast'.op = "IsAllowed" THEN 1 ELSE 0
            due    == TBLastRefillRead(u) + (TBCycles(u) + 1) * I
        IN  /\ tbStore'[u].hasTime /\ tbStore'[u].time = TBLastRefillRead(u) + TBCycles(u) * I
            /\ tbStore'[u].hasTok /\ tbStore'[u].tok = credit - taken
            /\ tbLast'.val = credit - taken
            /\ \A k \in 0..4 :
                  LET t == tbNow + k * TBStep(tbCfg)
                  IN  t < tbStore'[u].timeExp =>
                         (TBRefill(tbCfg, tbStore'[u], t).added <=> t >= due)

C7_RefillKeepsPhase == [][C7_Step]_vars

\* A refill was credited at an instant that is not a multiple of the
\* interval after lastRefill: the stored refill time stays behind the call.
C7_Witness ==
    /\ tbLast.op \in {"IsAllowed", "GetCurrentTokens"} /\ ~tbLast.err
    /\ tbStore[tbLast.u].hasTime
    /\ tbStore[tbLast.u].time < tbLast.at
    /\ tbStore[tbLast.u].time > TBStart

\* GetCurrentTokens at time t on the keys b (what is left of them at t).
TBObserve(b, t) == TBGetCurrentTokensScript(tbCfg, TBPurge(b, t), t, t)

\* C8 (as claimed): from stored (tokens, lastRefill), one observation after
\* two refill intervals returns and stores the same tokens as an observation
\* after one interval followed by one after the second.
C8_PhasePreservation ==
    \A u \in TBUsers : \A k1, k2 \in 0..TBMaxTicks :
        LET b  == tbStore[u]
            I  == refillSeconds(tbCfg)
            t1 == tbNow + k1 * TBStep(tbCfg)
            t2 == tbNow + k2 * TBStep(tbCfg)
        IN  ( /\ b.hasTok /\ b.hasTime
              /\ (t1 - b.time) \div I = 1
              /\ (t2 - b.time) \div I = 2 )
            =>
            LET once  == TBObserve(b, t2)
                twice == TBObserve(TBObserve(b, t1).b, t2)
            IN  /\ once.tokens = twice.tokens
                /\ TBPurge(once.b, t2).hasTok /\ TBPurge(twice.b, t2).hasTok
                      => once.b.tok = twice.b.tok

\* K back-to-back IsAllowed calls at time t on the keys b: the decisions.
RECURSIVE TBBurst(_, _, _)
TBBurst(b, t, K) ==
    IF K = 0 THEN <<>>
    ELSE LET r == TBIsAllowedScript(tbCfg, TBPurge(b, t), t, t)
         IN  <<r.allowed>> \o TBBurst(r.b, t, K - 1)

\* C9 (as claimed): after the IsAllowed that took the last token, once at
\* least one and fewer than two refill intervals have elapsed since
\* lastRefill, exactly min(maxTokens, tokensPerRefill) back-to-back calls
\* are allowed and the next is denied.
C9_RefillAfterDrain ==
    \A u \in TBUsers : \A k \in 0..TBMaxTicks :
        LET b == tbStore[u]
            I == refillSeconds(tbCfg)
            t == tbNow + k * TBStep(tbCfg)
            K == Min(tbCfg.MaxTokens, tokensPerRefill(tbCfg))
        IN  ( /\ tbLast.op = "IsAllowed" /\ tbLast.u = u /\ tbLast.allowed /\ tbLast.val = 0
              /\ b.hasTok /\ b.tok = 0 /\ b.hasTime
              /\ (t - b.time) \div I = 1 )
            =>
            TBBurst(b, t, K + 1) = [i \in 1..(K + 1) |-> i <= K]

\* C10: a denied IsAllowed returns 0 tokens and leaves the refill time
\* stored (with a fresh TTL); the next call for that user, if it is an
\* IsAllowed at least one refill interval later, is allowed.
C10_DeniedThenRefilled ==
    /\ (tbLast.op = "IsAllowed" /\ ~tbLast.err /\ ~tbLast.allowed) =>
          /\ tbLast.val = 0
          /\ tbNow < tbLast.at + tokenBucketExpireSeconds =>
                /\ tbStore[tbLast.u].hasTime
                /\ tbStore[tbLast.u].timeExp = tbLast.at + tokenBucketExpireSeconds
    /\ ( /\ tbLast.op = "IsAllowed" /\ ~tbLast.err /\ tbLast.pd
         /\ tbLast.at >= tbLast.pat + refillSeconds(tbCfg) )
       => tbLast.allowed

C10_Witness ==
    /\ tbLast.op = "IsAllowed" /\ ~tbLast.err /\ tbLast.pd
    /\ tbLast.at >= tbLast.pat + refillSeconds(tbCfg)

TBTypeOK ==
    /\ tbCfg \in TBConfigs
    /\ \A u \in TBUsers : tbStore[u] = TBPurge(tbStore[u], tbNow)


----------------------------------------------------------------------------
(* Leaky-bucket claims *)

\* C6: the level stored for every user, and the level returned by IsAllowed,
\* GetCurrentTokens and the AddTokens script, never exceed capacity, whatever
\* the elapsed time, also on a call that finds no record (last_time = 0,
\* elapsed = the whole epoch time).
C6_LevelAtMostCapacity ==
    /\ \A u \in LBUsers : lbStore[u].has => lbStore[u].tokens <= lbCfg.Capacity
    /\ (lbLast.op \in {"IsAllowed", "GetCurrentTokens", "AddTokens"} /\ ~lbLast.err)
          => lbLast.val <= lbCfg.Capacity

\* A call found no record, computed the whole epoch time as elapsed, and
\* the level it stored and returned is the capacity.
C6_Witness ==
    /\ lbLast.op \in {"GetCurrentTokens", "AddTokens"} /\ ~lbLast.err
    /\ lbLast.fresh
    /\ lbLast.elapsed = lbLast.at /\ lbLast.at >= LBStart - 1
    /\ lbLast.val = lbCfg.Capacity
    /\ lbStore[lbLast.u].has /\ lbStore[lbLast.u].tokens = lbCfg.Capacity

\* K back-to-back IsAllowed calls at time t on the hash b (what is left of
\* it at t): the decisions.
RECURSIVE LBBurst(_, _, _)
LBBurst(b, t, K) ==
    IF K = 0 THEN <<>>
    ELSE LET r == LBIsAllowedScript(lbCfg, LBPurge(b, t), t, t)
         IN  <<r.allowed>> \o LBBurst(r.b, t, K - 1)

\* An IsAllowed step of user u: with level and lastUpdate as stored (capacity
\* and 0 when there is no record) and now the caller's time, the level
\* becomes min(capacity, level + (now - lastUpdate)*rate); from 1 up the call
\* stores (level'-1, now) and returns (true, level'-1), below 1 it stores
\* (level', now) and returns (false, level').
C12_Step ==
    \A u \in LBUsers :
        ( /\ lbNow' = lbNow
          /\ lbLast' # lbLast \/ lbStore' # lbStore
          /\ lbLast'.op = "IsAllowed" /\ ~lbLast'.err /\ lbLast'.u = u )
        =>
        LET now        == lbLast'.at
            level      == IF lbStore[u].has THEN lbStore[u].tokens ELSE lbCfg.Capacity
            lastUpdate == IF lbStore[u].has THEN lbStore[u].last_time ELSE 0
            level2     == Min(lbCfg.Capacity, level + (now - lastUpdate) * lbCfg.Rate)
        IN  /\ lbStore'[u].has /\ lbStore'[u].last_time = now
            /\ IF level2 >= 1
               THEN /\ lbStore'[u].tokens = level2 - 1
                    /\ lbLast'.allowed /\ lbLast'.val = level2 - 1
               ELSE /\ lbStore'[u].tokens = level2
                    /\ ~lbLast'.allowed /\ lbLast'.val = level2

\* After the IsAllowed that drained the bucket, one second later exactly
\* min(capacity, rate) back-to-back calls are allowed and the next is denied
\* (rate = 2, capacity = 5: two allowed, the third denied).
C12_Drained ==
    \A u \in LBUsers :
        LET K == Min(lbCfg.Capacity, lbCfg.Rate)
        IN  ( /\ lbLast.op = "IsAllowed" /\ ~lbLast.err /\ lbLast.u = u
              /\ lbLast.allowed /\ lbLast.val = 0 /\ lbLast.at = lbNow
              /\ lbStore[u].has /\ lbStore[u].tokens = 0 /\ lbStore[u].last_time = lbNow )
            => LBBurst(lbStore[u], lbNow + 1, K + 1) = [i \in 1..(K + 1) |-> i <= K]

\* C12: every IsAllowed step computes, stores and returns what C12_Step
\* says, and a drained bucket admits min(capacity, rate) calls one second
\* later.
C12_IsAllowedLeaks == [][C12_Step]_vars /\ []C12_Drained

\* With rate = 2 and capacity = 5, a call was denied at level 0 in a second
\* after the start in which the record had already been written.
C12_Witness ==
    /\ lbCfg = [Rate |-> 2, Capacity |-> 5]
    /\ lbLast.op = "IsAllowed" /\ ~lbLast.err /\ ~lbLast.allowed /\ lbLast.val = 0
    /\ lbLast.at = lbNow /\ lbNow > LBStart
    /\ ~lbLast.fresh /\ lbLast.elapsed = 0
    /\ lbStore[lbLast.u].has /\ lbStore[lbLast.u].tokens = 0

\* C13: from every state and for every caller time now, GetCurrentTokens
\* stores the recomputed level with now and takes nothing; a second
\* GetCurrentTokens at that time returns the same value, and an IsAllowed
\* after the two returns the decision and level it would have returned
\* without them.
C13_InspectIdempotent ==
    \A u \in LBUsers, skew \in LBSkews :
        LET now    == lbNow + skew
            b      == lbStore[u]
            level  == IF b.has THEN b.tokens ELSE lbCfg.Capacity
            last   == IF b.has THEN b.last_time ELSE 0
            g1     == LBGetCurrentTokensScript(lbCfg, b, now, lbNow)
            g2     == LBGetCurrentTokensScript(lbCfg, g1.b, now, lbNow)
            direct == LBIsAllowedScript(lbCfg, b, now, lbNow)
            after  == LBIsAllowedScript(lbCfg, g2.b, now, lbNow)
        IN  /\ g1.tokens = Min(lbCfg.Capacity, level + (now - last) * lbCfg.Rate)
            /\ g1.b.has /\ g1.b.tokens = g1.tokens /\ g1.b.last_time = now
            /\ g2.tokens = g1.tokens
            /\ g2.b = g1.b
            /\ after.allowed = direct.allowed
            /\ after.tokens = direct.tokens
            /\ after.b = direct.b

\* GetCurrentTokens ran on a record already written at the caller's time
\* (zero elapsed), at a level below capacity, and returned what is stored.
C13_Witness ==
    /\ lbLast.op = "GetCurrentTokens" /\ ~lbLast.err
    /\ ~lbLast.fresh /\ lbLast.elapsed = 0
    /\ lbStore[lbLast.u].has
    /\ lbStore[lbLast.u].tokens = lbLast.val
    /\ lbStore[lbLast.u].last_time = lbLast.at
    /\ lbLast.val > 0 /\ lbLast.val < lbCfg.Capacity

LBTypeOK ==
    /\ lbCfg \in LBConfigs
    /\ \A u \in LBUsers : lbStore[u] = LBPurge(lbStore[u], lbNow)

----------------------------------------------------------------------------
(* Claims on both bucket limiters *)

\* C11: of the IsAllowed calls that concurrent callers issued within one
\* clock second for an identity found fresh, exactly min(calls, capacity)
\* were allowed (capacity = maxTokens for the token bucket), and once
\* capacity or more have returned and nobody is in flight, GetCurrentTokens
\* in that second returns 0.
C11_ConcurrentCapacity ==
    /\ tbTrace.n > 0 =>
        /\ tbTrace.a = Min(tbTrace.n, tbCfg.MaxTokens)
        /\ ( /\ tbTrace.n >= tbCfg.MaxTokens
             /\ tbTrace.at = tbNow
             /\ \A p \in BKProcs : tbPend[p].op = "idle" )
           => TBGetCurrentTokensScript(tbCfg, tbStore[tbTrace.u], tbNow, tbNow).tokens = 0
    /\ lbTrace.n > 0 =>
        /\ lbTrace.a = Min(lbTrace.n, lbCfg.Capacity)
        /\ ( /\ lbTrace.n >= lbCfg.Capacity
             /\ lbTrace.at = lbNow
             /\ \A p \in BKProcs : lbPend[p].op = "idle" )
           => LBGetCurrentTokensScript(lbCfg, lbStore[lbTrace.u], lbNow, lbNow).tokens = 0

\* On the token bucket more calls than the capacity were evaluated in the
\* current second on a fresh identity, all have returned, and the last of
\* them was evaluated after the clock had moved.
C11_Witness ==
    /\ tbTrace.n > tbCfg.MaxTokens /\ tbTrace.a = tbCfg.MaxTokens /\ tbTrace.at = tbNow
    /\ \A p \in BKProcs : tbPend[p].op = "idle"
    /\ tbNow > TBStart

\* What IsAllowed and GetCurrentTokens for identity u would return and
\* store at time t, from the store st.
TBResults(st, u, t) ==
    <<TBIsAllowedScript(tbCfg, st[TBSlot(u)], t, t),
      TBGetCurrentTokensScript(tbCfg, st[TBSlot(u)], t, t)>>

LBResults(st, u, t) ==
    <<LBIsAllowedScript(lbCfg, st[LBSlot(u)], t, t),
      LBGetCurrentTokensScript(lbCfg, st[LBSlot(u)], t, t)>>

\* A step that is a call for identity A (any method, failing or not) leaves
\* the keys of every other identity B as they were, and every operation on
\* B returns afterwards what it would have returned before (it does when
\* the keys it reads hold what they held; the results are compared when
\* they do not).
C14_Step ==
    /\ ( /\ tbNow' = tbNow
         /\ tbLast' # tbLast \/ tbStore' # tbStore )
       => \A B \in DOMAIN tbStore \ {tbLast'.u} :
             /\ tbStore'[B] = tbStore[B]
             /\ \/ tbStore'[TBSlot(B)] = tbStore[TBSlot(B)]
                \/ TBResults(tbStore', B, tbNow) = TBResults(tbStore, B, tbNow)
    /\ ( /\ lbNow' = lbNow
         /\ lbLast' # lbLast \/ lbStore' # lbStore )
       => \A B \in DOMAIN lbStore \ {lbLast'.u} :
             /\ lbStore'[B] = lbStore[B]
             /\ \/ lbStore'[LBSlot(B)] = lbStore[LBSlot(B)]
                \/ LBResults(lbStore', B, lbNow) = LBResults(lbStore, B, lbNow)

\* C14: no call for one identity changes the stored state of another
\* identity of the same limiter, or what a later call for it returns.
C14_IdentityIsolation == [][C14_Step]_vars

\* A call for one identity of the leaky bucket changed that identity's
\* record while another identity held a record of its own, below capacity.
C14_Witness ==
    /\ lbLast.op \in {"IsAllowed", "AddTokens", "SetTokens", "ResetBucket"} /\ ~lbLast.err
    /\ \E B \in DOMAIN lbStore \ {lbLast.u} :
          /\ lbStore[B].has /\ lbStore[B].tokens < lbCfg.Capacity
          /\ lbStore[B] # lbStore[lbLast.u]

\* The call recorded in last was given an input the method must refuse.
TBInvalidCall(last) ==
    \/ last.op # "none" /\ last.u = ""
    \/ last.op = "AddTokens" /\ last.val <= 0
    \/ last.op = "SetTokens" /\ (last.val < 0 \/ last.val > tbCfg.MaxTokens)

LBInvalidCall(last) ==
    \/ last.op # "none" /\ last.u = ""
    \/ last.op = "AddTokens" /\ last.arg <= 0
    \/ last.op = "SetTokens" /\ (last.arg < 0 \/ last.arg > lbCfg.Capacity)

C15_Step ==
    /\ ( /\ tbNow' = tbNow
         /\ tbLast' # tbLast \/ tbStore' # tbStore
         /\ TBInvalidCall(tbLast') )
       => tbLast'.err /\ tbStore' = tbStore
    /\ ( /\ lbNow' = lbNow
         /\ lbLast' # lbLast \/ lbStore' # lbStore
         /\ LBInvalidCall(lbLast') )
       => lbLast'.err /\ lbStore' = lbStore

\* C15: on both bucket limiters a call with an empty identity, AddTokens
\* with tokens <= 0 and SetTokens with tokens < 0 or above the capacity
\* return an error and leave every key as it was.
C15_InvalidCallsRefused == [][C15_Step]_vars

\* SetTokens above the capacity was refused on the leaky bucket while the
\* identity held a record.
C15_Witness ==
    /\ lbLast.op = "SetTokens" /\ lbLast.u # "" /\ lbLast.arg > lbCfg.Capacity
    /\ lbLast.err
    /\ lbStore[LBSlot(lbLast.u)].has

----------------------------------------------------------------------------
(* Claims on RateLimiter and RateLimiterV2 *)

C16_Step ==
    /\ ( /\ fwNow' = fwNow
         /\ fwLast' # fwLast \/ fwStore' # fwStore
         /\ \/ fwLast'.op = "IncreaseCount" /\ fwLast'.val <= 0
            \/ fwLast'.op = "SetCount" /\ fwLast'.val < 0 )
       => fwLast'.err /\ fwStore' = fwStore
    /\ ( /\ v2Now' = v2Now
         /\ v2Last' # v2Last \/ v2Store' # v2Store
         /\ \/ v2Last'.op = "IncreaseCount" /\ v2Last'.arg <= 0
            \/ v2Last'.op = "SetCount" /\ v2Last'.arg < 0 )
       => v2Last'.err /\ v2Store' = v2Store

C17_Step ==
    ( /\ v2Now' = v2Now
      /\ v2Last' # v2Last \/ v2Store' # v2Store
      /\ v2Last'.op = "IncreaseCount" )
    => /\ v2Last'.arg = 0 => v2Last'.err
       /\ v2Last'.arg < 0 =>
             /\ ~v2Last'.err
             /\ GetCurrentCountV2(v2Cfg, v2Store', v2Now)
                  = GetCurrentCountV2(v2Cfg, v2Store, v2Now) + v2Last'.arg

\* C17: RateLimiterV2.IncreaseCount refuses 0 but accepts a negative
\* increment: IncreaseCount(-1) returns no error and lowers the used count
\* by one.
C17_NegativeIncrementAccepted == [][C17_Step]_vars

----------------------------------------------------------------------------
(* Claims on the constructors *)

\* MaxCount / TimeUnit.Seconds() lies in [0.1, 10000] (TimeUnit in ms, > 0).
C18_DensityInRange(config) ==
    /\ 10 * MsPerSecond * config.MaxCount >= config.TimeUnit
    /\ config.MaxCount <= 10 * config.TimeUnit

C19_TestConfigs ==
    {<<100, MsPerHour>>, <<3, MsPerHour>>, <<5, MsPerMinute>>, <<5, MsPerHour>>,
     <<5, MsPerDay>>, <<2, 100>>}

\* C19: NewRateLimiter accepts every configuration its tests construct as
\* valid (non-nil client, non-empty key).
C19_TestConfigsAccepted ==
    ( /\ ctor.fn = "NewRateLimiter"
      /\ ctor.client # "nil" /\ ctor.config.Key # ""
      /\ <<ctor.config.MaxCount, ctor.config.TimeUnit>> \in C19_TestConfigs )
    => ~ctor.err

\* maxTokens * refillInterval / tokensPerRefill exceeds 24h (exactly, the
\* interval in ms).
C20_ExpiryOver24h(config) ==
    LET product == config.MaxTokens * config.RefillInterval
        per     == tokensPerRefill(config)
    IN  \/ product \div per > MsPerDay
        \/ product \div per = MsPerDay /\ product % per > 0

\* C20: NewTokenBucketRateLimiter rejects a nil client, an empty key,
\* MaxTokens <= 0, RefillInterval <= 0 and every configuration whose derived
\* expiry exceeds 24h; with TokensPerRefill <= 0 the limiter uses MaxTokens.
C20_NewTokenBucketChecks ==
    ctor.fn = "NewTokenBucketRateLimiter" =>
        LET c == ctor.config
        IN  /\ ( \/ ctor.client = "nil"
                 \/ c.Key = ""
                 \/ c.MaxTokens <= 0
                 \/ c.RefillInterval <= 0
                 \/ C20_ExpiryOver24h(c) ) => ctor.err
            /\ (~ctor.err /\ c.TokensPerRefill <= 0)
                  => ctor.limiter.tokensPerRefill = c.MaxTokens

----------------------------------------------------------------------------
(* Fixed-window claims *)

\* C1: on a key found absent, the k-th consecutive IsAllowed (k = 1..N,
\* N = maxCount) returns (true, N-k) and stores N-k; every later one returns
\* (false, 0) and leaves the store as it was.
C1_QuotaCountdown ==
    (fwLast.op = "IsAllowed" /\ fwTrace.n > 0 /\ fwTrace.key = fwLast.key) =>
        IF fwTrace.n <= fwCfg.maxCount
        THEN /\ fwLast.allowed
             /\ fwLast.val = fwCfg.maxCount - fwTrace.n
             /\ fwLast.post = fwCfg.maxCount - fwTrace.n
        ELSE /\ ~fwLast.allowed
             /\ fwLast.val = 0
             /\ fwLast.same
             /\ fwLast.post = 0

\* The (N+1)-th consecutive call on a key has returned.
C1_Witness ==
    /\ fwLast.op = "IsAllowed"
    /\ fwTrace.key = fwLast.key
    /\ fwTrace.n = fwCfg.maxCount + 1

\* C2: of the IsAllowed calls that concurrent callers evaluated on one key
\* since it was absent, exactly min(calls, maxCount) were allowed, and once
\* maxCount or more have returned and nobody is in flight the count stored
\* for that window is 0.
C2_ConcurrentQuota ==
    fwTrace.n > 0 =>
        /\ fwTrace.a = Min(fwTrace.n, fwCfg.maxCount)
        /\ ( /\ fwTrace.n >= fwCfg.maxCount
             /\ \A p \in FWProcs : fwPend[p].op = "idle"
             /\ generateTimeKey(fwCfg, fwNow) = fwTrace.key )
           => FWVal(fwStore, fwTrace.key, fwNow) = 0

\* More calls than the quota were evaluated on the key while another caller
\* of the same window was still in flight, and all have returned since.
C2_Witness ==
    /\ fwTrace.n > fwCfg.maxCount
    /\ fwTrace.a = fwCfg.maxCount
    /\ \A p \in FWProcs : fwPend[p].op = "idle"
    /\ generateTimeKey(fwCfg, fwNow) = fwTrace.key
    /\ fwLast.op = "IsAllowed" /\ fwLast.at < fwNow

\* C3: an IsAllowed that is the first call after a denied IsAllowed, and
\* whose time.Now() is at least one timeUnit later than that of the denied
\* call, uses another key and returns (true, maxCount - 1).
C3_WindowRollover ==
    (fwLast.op = "IsAllowed" /\ fwLast.pd /\ fwLast.at >= fwLast.pat + fwCfg.timeUnit) =>
        /\ fwLast.key # fwLast.pkey
        /\ fwLast.allowed
        /\ fwLast.val = fwCfg.maxCount - 1

C3_Witness ==
    /\ fwLast.op = "IsAllowed"
    /\ fwLast.pd
    /\ fwLast.at >= fwLast.pat + fwCfg.timeUnit

\* C4 (as claimed): every stored count lies in 0..maxCount.
C4_RemainingInRange ==
    \A k \in DOMAIN fwStore : 0 <= fwStore[k].val /\ fwStore[k].val <= fwCfg.maxCount

FWTypeOK ==
    /\ fwCfg \in FWConfigs
    /\ fwNow \in FWStart..(FWStart + FWMaxTicks * FWStep(fwCfg))
    /\ \A k \in DOMAIN fwStore : Live(fwStore[k], fwNow)

----------------------------------------------------------------------------
(* Fixed-window claims: inspection, reset, keys and expiry *)

\* C21 (as claimed): RateLimiter.GetCurrentCount returns the number of
\* requests used in the current window: 0 when the window has no state, and
\* after the IsAllowed calls made on the key since it was absent, the number
\* of them that were allowed.
C21_CurrentCountIsUsed ==
    (fwLast.op = "GetCurrentCount" /\ ~fwLast.err) =>
        /\ fwLast.post = -1 => fwLast.val = 0
        /\ (fwLast.post # -1 /\ fwTrace.n > 0 /\ fwTrace.key = fwLast.key) =>
               fwLast.val = fwTrace.a

\* C22: on a RateLimiterV2 key found absent, the k-th consecutive IsAllowed
\* (k = 1..N, N = maxCount) returns (true, N-k); every later one returns
\* (false, 0); and the used count GetCurrentCount reads right after the
\* k-th call is min(k, N).
C22_V2QuotaCountdown ==
    ( /\ v2Last.op = "IsAllowed"
      /\ v2Trace.n > 0
      /\ v2Trace.key = generateTimeKeyV2(v2Cfg, v2Last.at) ) =>
        /\ IF v2Trace.n <= v2Cfg.maxCount
           THEN v2Last.allowed /\ v2Last.val = v2Cfg.maxCount - v2Trace.n
           ELSE ~v2Last.allowed /\ v2Last.val = 0
        /\ v2Last.at = v2Now =>
               GetCurrentCountV2(v2Cfg, v2Store, v2Now) = Min(v2Trace.n, v2Cfg.maxCount)

\* The call after the (N+1)-th consecutive call on a key has returned: two
\* denied calls in a row.
C22_Witness ==
    /\ v2Last.op = "IsAllowed"
    /\ ~v2Last.allowed
    /\ v2Trace.key = generateTimeKeyV2(v2Cfg, v2Last.at)
    /\ v2Trace.n = v2Cfg.maxCount + 2
    /\ v2Last.at = v2Now

C23_WitnessFW == fwLast.op = "ResetRateLimit" /\ fwLast.at = fwNow /\ fwLast.pd

C23_WitnessLB == lbLast.op = "ResetBucket" /\ ~lbLast.err /\ ~lbLast.fresh

----------------------------------------------------------------------------
(* Token-bucket claims: administrative calls *)

\* C24 (as claimed): once SetTokens(u, c) with 0 <= c <= maxTokens has
\* succeeded, GetCurrentTokens(u) at the same timestamp returns c and
\* IsAllowed(u) at that timestamp returns (true, c-1) when c > 0 and
\* (false, 0) when c = 0.
C24_SetTokensThenRead ==
    (tbLast.op = "SetTokens" /\ ~tbLast.err /\ tbLast.at = tbNow) =>
        LET b == tbStore[TBSlot(tbLast.u)]
            c == tbLast.val
            r == TBIsAllowedScript(tbCfg, b, tbNow, tbNow)
        IN  /\ TBGetCurrentTokensScript(tbCfg, b, tbNow, tbNow).tokens = c
            /\ IF c > 0
               THEN r.allowed /\ r.tokens = c - 1
               ELSE ~r.allowed /\ r.tokens = 0

----------------------------------------------------------------------------
(* Store-failure claims *)

\* The step is an IsAllowed whose store call failed.
FWFailedStep == fwNow' = fwNow /\ fwLast'.op = "IsAllowed" /\ fwLast'.err

TBFailedStep == tbNow' = tbNow /\ tbLast'.op = "IsAllowed" /\ tbLast'.err /\ tbLast'.u # ""

LBFailedStep == lbNow' = lbNow /\ lbLast'.op = "IsAllowed" /\ lbLast'.err /\ lbLast'.u # ""

\* C25 (as claimed): an IsAllowed whose store call fails returns an error
\* with (false, 0) and leaves the store exactly as it was.
C25_OriginalStep ==
    /\ FWFailedStep => ~fwLast'.allowed /\ fwLast'.val = 0 /\ fwStore' = fwStore
    /\ TBFailedStep => ~tbLast'.allowed /\ tbLast'.val = 0 /\ tbStore' = tbStore
    /\ LBFailedStep => ~lbLast'.allowed /\ lbLast'.val = 0 /\ lbStore' = lbStore

C25_Step ==
    /\ FWFailedStep =>
           /\ ~fwLast'.allowed /\ fwLast'.val = 0
           /\ \E n \in ScriptRuns :
                  fwStore' = FWRunIsAllowed(fwCfg, fwStore, fwLast'.key, fwNow, n)
    /\ TBFailedStep =>
           /\ ~tbLast'.allowed /\ tbLast'.val = 0
           /\ \E n \in ScriptRuns :
                  tbStore' = [tbStore EXCEPT ![TBSlot(tbLast'.u)] =
                                 TBRunIsAllowed(tbCfg, @, tbNow, n)]
    /\ LBFailedStep =>
           /\ ~lbLast'.allowed /\ lbLast'.val = 0
           /\ \E n \in ScriptRuns :
                  lbStore' = [lbStore EXCEPT ![LBSlot(lbLast'.u)] =
                                 LBRunIsAllowed(lbCfg, @, lbNow, n)]

----------------------------------------------------------------------------
(* Activation-code claims *)

\* C26 (as claimed): GenerateActivationCode returns an error and no code
\* when its argument is of an unsupported type, is a string that does not
\* parse as an integer, or converts to a number outside [0, total).
C26_InvalidNumberRefused ==
    act.fn = "GenerateActivationCode" =>
        LET g == getNumber(act.number)
        IN  (g.err \/ g.num < 0 \/ g.num >= ActTotal) =>
                act.err /\ act.res = ActNoCode

\* The window lengths with a calendar layout of their own.
CalendarUnits == {MsPerSecond, MsPerMinute, MsPerHour, MsPerDay}

\* The aligned slot of length windowDuration an instant lies in.
Slot(unit, ms) == ms \div unit

\* An IsAllowed call of RateLimiter returning after another one.
C27_StepFW ==
    (/\ fwCfg.timeUnit \notin CalendarUnits
     /\ fwLast.op = "IsAllowed" /\ fwLast'.op = "IsAllowed"
     /\ fwNow' = fwNow)
    => /\ (fwLast'.key = fwLast.key)
              <=> (Slot(fwCfg.timeUnit, fwLast'.at) = Slot(fwCfg.timeUnit, fwLast.at))
       /\ (/\ fwLast.allowed /\ fwLast'.allowed /\ fwStore' # fwStore
           /\ Slot(fwCfg.timeUnit, fwLast'.at) = Slot(fwCfg.timeUnit, fwLast.at))
          => fwLast'.val < fwLast.val

\* An IsAllowed call of RateLimiterV2 returning after another one.
C27_StepV2 ==
    (/\ v2Cfg.timeUnit \notin CalendarUnits
     /\ v2Last.op = "IsAllowed" /\ v2Last'.op = "IsAllowed"
     /\ v2Now' = v2Now)
    => /\ (generateTimeKeyV2(v2Cfg, v2Last'.at) = generateTimeKeyV2(v2Cfg, v2Last.at))
              <=> (Slot(v2Cfg.timeUnit, v2Last'.at) = Slot(v2Cfg.timeUnit, v2Last.at))
       /\ (/\ v2Last.allowed /\ v2Last'.allowed /\ v2Store' # v2Store
           /\ Slot(v2Cfg.timeUnit, v2Last'.at) = Slot(v2Cfg.timeUnit, v2Last.at))
          => v2Last'.val < v2Last.val

\* C27: for a window that is none of 1s, 1min, 1h and 24h, two IsAllowed
\* calls following each other use the same key exactly when their instants
\* lie in the same aligned slot of length windowDuration, and of two allowed
\* calls in one slot the later one returns the smaller remaining count (so
\* that a slot allows no more than maxCount calls).
C27_KeyIsAlignedSlot == [][C27_StepFW /\ C27_StepV2]_vars

\* A call returning while the key of the current window is absent, compared
\* with the same call on a store that holds maxCount under that key.
C28_Step ==
    LET key  == generateTimeKey(fwCfg, fwNow)
        full == FWPut(fwStore, key,
                      [val |-> fwCfg.maxCount,
                       exp |-> fwNow + expireSeconds(fwCfg) * MsPerSecond])
        r    == IsAllowedScript(fwCfg, full, key, fwNow)
        left(store) == GetCurrentCount(fwCfg, store, key, fwNow)
    IN  (/\ NewRateLimiterOK(fwCfg)
         /\ ~FWHas(fwStore, key, fwNow)
         /\ fwNow' = fwNow
         /\ fwLast' # fwLast
         /\ ~fwLast'.err)
        => CASE fwLast'.op = "IsAllowed" ->
                   /\ fwLast'.allowed = r.allowed
                   /\ fwLast'.val = r.count
                   /\ left(fwStore') = left(r.store)
             [] fwLast'.op = "GetCurrentCount" ->
                   /\ fwLast'.val = left(full)
                   /\ left(fwStore') = left(full)
             [] fwLast'.op = "IncreaseCount" ->
                   left(fwStore') = left(IncrBy(full, key, fwLast'.val, fwNow))
             [] fwLast'.op = "SetCount" ->
                   left(fwStore') = left(FWPut(full, key, [val |-> fwLast'.val,
                                                           exp |-> full[key].exp]))
             [] OTHER -> TRUE

\* C28: a call of IsAllowed, GetCurrentCount, IncreaseCount or SetCount on a
\* window without stored state returns what it returns on a window whose
\* stored count is maxCount, and leaves the same remaining count.
C28_AbsentIsFull == [][C28_Step]_vars

\* C29: every key of the fixed-window RateLimiter present in the store has
\* a TTL, and it expires no later than one window and the buffer
\* (calculateExpireTime) from now.
C29_KeysCarryTTL ==
    NewRateLimiterOK(fwCfg) =>
        \A k \in DOMAIN fwStore :
            Live(fwStore[k], fwNow) =>
                /\ fwStore[k].exp # NoExp
                /\ fwStore[k].exp <= fwNow + expireSeconds(fwCfg) * MsPerSecond

\* C30: without administrative calls, no counter of RateLimiter or
\* RateLimiterV2 expires between two IsAllowed calls on its key, and the
\* IsAllowed calls allowed on one key number at most maxCount.
C30_CounterOutlivesWindow ==
    /\ NewRateLimiterOK(fwCfg) =>
           ~fwTrace.lost /\ fwTrace.a <= fwCfg.maxCount
    /\ NewRateLimiterV2OK(v2Cfg) =>
           ~v2Trace.lost /\ v2Trace.a <= v2Cfg.maxCount

\* C30 witness: a RateLimiter key has been called on more often than
\* maxCount, the last call coming later than the last write of the key.
C30_Witness ==
    /\ NewRateLimiterOK(fwCfg)
    /\ fwTrace.n > fwCfg.maxCount
    /\ fwTrace.a = fwCfg.maxCount
    /\ fwLast.op = "IsAllowed" /\ ~fwLast.allowed
    /\ fwLast.key = fwTrace.key
    /\ fwStore[fwTrace.key].exp < fwNow + expireSeconds(fwCfg) * MsPerSecond

\* C30 witness for RateLimiterV2: the denied call comes later than the
\* first call on the key.
C30_WitnessV2 ==
    /\ NewRateLimiterV2OK(v2Cfg)
    /\ v2Trace.n > v2Cfg.maxCount
    /\ v2Trace.a = v2Cfg.maxCount
    /\ v2Last.op = "IsAllowed" /\ ~v2Last.allowed
    /\ v2Store[v2Trace.key].exp < v2Now + expireSecondsV2(v2Cfg) * MsPerSecond

\* C31: the remaining value IsAllowed of RateLimiterV2 has just returned is
\* not negative and is the value GetRemainingCount returns in that state.
C31_RemainingAgrees ==
    (v2Last.op = "IsAllowed" /\ ~v2Last.err /\ v2Last.at = v2Now) =>
        /\ v2Last.val >= 0
        /\ v2Last.val = Max(0, v2Cfg.maxCount - GetCurrentCountV2(v2Cfg, v2Store, v2Now))

\* C32: the token key and the time key of every identity of the token
\* bucket are both present or both absent.
C32_KeysPaired ==
    NewTokenBucketRateLimiterOK(tbCfg) =>
        \A u \in DOMAIN tbStore : tbStore[u].hasTok = tbStore[u].hasTime

\* C33: for every configuration NewTokenBucketRateLimiter accepts, the
\* refill interval handed to the scripts is a positive number of seconds
\* and is the configured RefillInterval.
C33_RefillIntervalWholeSeconds ==
    (ctor.fn = "NewTokenBucketRateLimiter" /\ ~ctor.err) =>
        LET refill_interval == refillSeconds(ctor.config)
        IN  /\ refill_interval > 0
            /\ refill_interval * MsPerSecond = ctor.limiter.refillInterval

\* C34: the IsAllowed calls allowed to one identity between its first call
\* at t0 and now number at most
\* maxTokens + floor((now - t0) / refillInterval) * tokensPerRefill.
C34_AdmissionBound ==
    (NewTokenBucketRateLimiterOK(tbCfg) /\ tbAdm.on /\ tbAdm.u # "") =>
        tbAdm.a <= TBAdmBound(tbCfg, tbAdm.t0, tbNow)

\* C35: the level stored for every identity of the leaky bucket is never
\* negative, also after a call whose timestamp lies before the stored
\* last_time.
C35_LevelNotNegative ==
    NewLeakyBucketRateLimiterOK(lbCfg) =>
        \A u \in DOMAIN lbStore : lbStore[u].has => lbStore[u].tokens >= 0

\* A step of the leaky bucket: every write gives the record a TTL of
\* ceil(capacity/rate) seconds, and when a record expires, the calls that
\* follow return and store what they would with the record kept.
C36_Step ==
    \A u \in DOMAIN lbStore :
        /\ (lbStore'[u] # lbStore[u] /\ lbStore'[u].has)
               => lbStore'[u].exp = lbNow' + LBExpireTime(lbCfg)
        /\ (lbStore[u].has /\ ~lbStore'[u].has /\ lbNow' # lbNow)
               => \A skew \in LBSkews, k \in 0..1 :
                      LET t    == lbNow' + k
                          kept == lbStore[u]
                          gone == lbStore'[u]
                          ia(b) == LBIsAllowedScript(lbCfg, b, t + skew, t)
                          gt(b) == LBGetCurrentTokensScript(lbCfg, b, t + skew, t)
                          at(b) == LBAddTokensScript(lbCfg, b, 1, t + skew, t)
                      IN  /\ ia(kept).allowed = ia(gone).allowed
                          /\ ia(kept).tokens = ia(gone).tokens
                          /\ ia(kept).b = ia(gone).b
                          /\ gt(kept).tokens = gt(gone).tokens
                          /\ gt(kept).b = gt(gone).b
                          /\ at(kept).b = at(gone).b

\* C36: the record of the leaky bucket expires ceil(capacity/rate) seconds
\* after its last write, and an operation executed after the expiry returns
\* the result and stores the state it would have with the record kept.
C36_ExpiryUnobservable == [][C36_Step]_vars

\* C37: no send of TickerPush hits the closed channel, and no receive of
\* Pop returns without a token.
C37_CloseIsSafe ==
    tk.ticker.pc # "panic" /\ ~tk.empty

\* C39: the Run that has returned last executed the jobs pushed for its key
\* since the previous Run, once each and in push order (up to a job that
\* panicked), and left no entry for its key in the registry; a Run without
\* new pushes executed nothing.
C39_RunExecutesAndClears ==
    aj.last.op = "Run" =>
        /\ ~aj.last.panicked => aj.last.ran = aj.last.pushed
        /\ aj.last.panicked =>
              \E n \in 1..Len(aj.last.pushed) : aj.last.ran = SubSeq(aj.last.pushed, 1, n)
        /\ ~aj.last.entry

\* C40: a Run called when every concurrent Push has returned executes every
\* job pushed for its key since the previous Run (up to a job that panicked).
C40_NoJobLost ==
    (aj.last.op = "Run" /\ ~aj.last.panicked) =>
        \A i \in 1..Len(aj.last.pushed) :
            \E j \in 1..Len(aj.last.ran) : aj.last.ran[j] = aj.last.pushed[i]

\* C38: while the channel is open and TickerPush runs with num <= max, the
\* buffer never holds more than max tokens, a Push of TickerPush never
\* starts without room for its num tokens, and every Pop call that has been
\* entered eventually returns.
C38_PopReturns ==
    /\ [](tk.c <= tk.max)
    /\ [](tk.ticker.pc = "Push" => tk.c + tk.ticker.i <= tk.max)
    /\ (tk.pop > 0) ~> (tk.pop = 0)

\* C38 witness: the 120 Pop(1) calls of TestDo have all returned, with more
\* tokens taken than the buffer can hold.
C38_Witness ==
    /\ tk.ticker.pc # "off" /\ ~tk.closed /\ tk.num <= tk.max
    /\ tk.max = TKTestDo.max /\ tk.num = TKTestDo.num
    /\ tk.calls = TKTestDo.pops /\ tk.pop = 0
    /\ tk.taken = TKTestDo.pops /\ tk.taken > tk.max

====
